---- MODULE Spec2Model ----
(***************************************************************************)
(* A model of the course catalog core (src/catalog.cpp, src/catalog.hpp),  *)
(* of the menu that drives it (src/src/cli/main_cli.cpp) and of the        *)
(* dashboard window (src/src/gui/main_gui.cpp, src/mainwindow.cpp).        *)
(*                                                                         *)
(* Strings are sequences of one-character strings, so that trimming,       *)
(* upper-casing, splitting, validation and lexicographic comparison are    *)
(* computed character by character as the code does.  Paths are strings   *)
(* too; an absolute path starts with "/".                                  *)
(***************************************************************************)
EXTENDS Integers, Sequences, FiniteSets, TLC

\* ------------------------------------------------------------------ bounds

\* Most lines of text a file of the model holds.
MaxLines == 3
\* Most lines of the first file when a second file exists.
MaxPairLines == 1
\* Longest token handed to the identifier validator on its own.
MaxTokenLen == 4
\* Number of directories between the root and the current directory.
CwdDepth == 10

\* --------------------------------------------------------------- characters

UpperLetters ==
  <<"A","B","C","D","E","F","G","H","I","J","K","L","M",
    "N","O","P","Q","R","S","T","U","V","W","X","Y","Z">>

LowerLetters ==
  <<"a","b","c","d","e","f","g","h","i","j","k","l","m",
    "n","o","p","q","r","s","t","u","v","w","x","y","z">>

Digits == <<"0","1","2","3","4","5","6","7","8","9">>

\* The characters of the model in increasing order of their character code.
AsciiOrder ==
  <<"\t", "\n", "\r", " ", "'", "(", ")", ",", "-", ".", "/">>
    \o Digits \o <<":">> \o UpperLetters \o <<"_">> \o LowerLetters

Range(s) == {s[i] : i \in 1..Len(s)}

CharCode == [c \in Range(AsciiOrder) |-> CHOOSE i \in 1..Len(AsciiOrder) : AsciiOrder[i] = c]

UpperOf == [c \in Range(AsciiOrder) |->
              IF c \in Range(LowerLetters)
              THEN UpperLetters[CHOOSE i \in 1..26 : LowerLetters[i] = c]
              ELSE c]

isalpha(ch) == ch \in Range(UpperLetters) \cup Range(LowerLetters)

isdigit(ch) == ch \in Range(Digits)

toupper(ch) == UpperOf[ch]

\* std::string operator< : lexicographic on character codes, a proper prefix first.
RECURSIVE StrLessFrom(_, _, _)
StrLessFrom(a, b, i) ==
  IF i > Len(b) THEN FALSE
  ELSE IF i > Len(a) THEN TRUE
  ELSE IF a[i] # b[i] THEN CharCode[a[i]] < CharCode[b[i]]
  ELSE StrLessFrom(a, b, i + 1)

StrLess(a, b) == StrLessFrom(a, b, 1)

\* ------------------------------------------------------------ string helpers

Whitespace == {" ", "\t", "\r", "\n"}

\* trim: the text between its first and last non-whitespace character.
trim(text) ==
  LET keep == {i \in 1..Len(text) : text[i] \notin Whitespace}
  IN IF keep = {} THEN <<>>
     ELSE LET first == CHOOSE i \in keep : \A j \in keep : i <= j
              last  == CHOOSE i \in keep : \A j \in keep : j <= i
          IN SubSeq(text, first, last)

\* An upper-casing that returns its argument untouched.
toUpperUnchanged(value) == value

toUpper(value) == [i \in 1..Len(value) |-> toupper(value[i])]

\* The loop of isCourseIdValid from character i on, with its two flags.
RECURSIVE ScanCourseId(_, _, _, _)
ScanCourseId(courseId, i, hasLetter, hasDigit) ==
  IF i > Len(courseId) THEN hasLetter /\ hasDigit
  ELSE IF isalpha(courseId[i])
       THEN IF hasDigit THEN FALSE
            ELSE ScanCourseId(courseId, i + 1, TRUE, hasDigit)
  ELSE IF isdigit(courseId[i])
       THEN ScanCourseId(courseId, i + 1, hasLetter, TRUE)
  ELSE FALSE

\* A validator that forgets that letters may not follow digits.
isCourseIdValidAnyOrder(courseId) ==
  /\ Len(courseId) > 0
  /\ \A i \in 1..Len(courseId) : isalpha(courseId[i]) \/ isdigit(courseId[i])
  /\ \E i \in 1..Len(courseId) : isalpha(courseId[i])
  /\ \E i \in 1..Len(courseId) : isdigit(courseId[i])

isCourseIdValid(courseId) ==
  IF Len(courseId) = 0 THEN FALSE
  ELSE ScanCourseId(courseId, 1, FALSE, FALSE)

\* The loop `while (std::getline(stream, cell, delim))` over the text from
\* position i on: a cell ends at the delimiter or at the end of the text, and
\* the loop ends when the stream has nothing left, so that no empty cell is
\* produced after a final delimiter.
RECURSIVE GetCells(_, _, _, _)
GetCells(text, delim, i, cell) ==
  IF i > Len(text)
  THEN IF cell = <<>> /\ (i = 1 \/ text[i - 1] = delim) THEN <<>> ELSE <<cell>>
  ELSE IF text[i] = delim
       THEN <<cell>> \o GetCells(text, delim, i + 1, <<>>)
       ELSE GetCells(text, delim, i + 1, Append(cell, text[i]))

getline(text, delim) == GetCells(text, delim, 1, <<>>)

\* std::to_string of a line number.
RECURSIVE to_string(_)
to_string(n) ==
  IF n < 10 THEN <<Digits[n + 1]>>
  ELSE to_string(n \div 10) \o <<Digits[(n % 10) + 1]>>

\* A sort whose comparison is the wrong way round.
RECURSIVE SortStringsDescending(_)
SortStringsDescending(S) ==
  IF S = {} THEN <<>>
  ELSE LET greatest == CHOOSE x \in S : \A y \in S : ~StrLess(x, y)
       IN <<greatest>> \o SortStringsDescending(S \ {greatest})

\* std::sort of a set of strings: the strings in increasing order.
RECURSIVE SortStrings(_)
SortStrings(S) ==
  IF S = {} THEN <<>>
  ELSE LET least == CHOOSE x \in S : \A y \in S : ~StrLess(y, x)
       IN <<least>> \o SortStrings(S \ {least})

\* ------------------------------------------------------------ message texts

MsgFileNameEmpty ==
  <<"F","i","l","e"," ","n","a","m","e"," ","i","s"," ","e","m","p","t","y",".">>

MsgUnableToLocate ==
  <<"U","n","a","b","l","e"," ","t","o"," ","l","o","c","a","t","e"," ","f","i","l","e",":"," ">>

MsgUnableToOpen ==
  <<"U","n","a","b","l","e"," ","t","o"," ","o","p","e","n"," ","f","i","l","e",":"," ">>

MsgSkippingLine == <<"S","k","i","p","p","i","n","g"," ","l","i","n","e"," ">>

MsgExpectedIdAndName ==
  <<":"," ","e","x","p","e","c","t","e","d"," ","c","o","u","r","s","e"," ","I","D"," ",
    "a","n","d"," ","n","a","m","e",".">>

MsgInvalidCourseId ==
  <<":"," ","i","n","v","a","l","i","d"," ","c","o","u","r","s","e"," ","I","D"," ","'">>

MsgQuoteDot == <<"'",".">>

MsgSkippingPrereq ==
  <<"S","k","i","p","p","i","n","g"," ","i","n","v","a","l","i","d"," ",
    "p","r","e","r","e","q","u","i","s","i","t","e"," ","'">>

MsgForCourse == <<"'"," ","f","o","r"," ","c","o","u","r","s","e"," ">>

MsgDuplicatePrereq ==
  <<"D","u","p","l","i","c","a","t","e"," ","p","r","e","r","e","q","u","i","s","i","t","e"," ","'">>

MsgIgnoredForCourse ==
  <<"'"," ","i","g","n","o","r","e","d"," ","f","o","r"," ","c","o","u","r","s","e"," ">>

MsgReplacing ==
  <<"R","e","p","l","a","c","i","n","g"," ","e","x","i","s","t","i","n","g"," ",
    "c","o","u","r","s","e"," ","e","n","t","r","y"," ","f","o","r"," ">>

MsgReferencedBy == <<" ","(","r","e","f","e","r","e","n","c","e","d"," ","b","y"," ">>

\* -------------------------------------------------------------- file system

\* A file system maps the absolute path of each existing file to
\* [openable, text]; a path outside its domain does not exist.

\* The process's current directory: CwdDepth directories below the root.
RECURSIVE DirAtDepth(_)
DirAtDepth(n) ==
  IF n = 0 THEN <<"/">>
  ELSE IF n = 1 THEN <<"/", "d">>
  ELSE DirAtDepth(n - 1) \o <<"/", "d">>

current_path == DirAtDepth(CwdDepth)

is_absolute(p) == Len(p) > 0 /\ p[1] = "/"

\* fs::path operator/ for a relative right-hand side.
PathJoin(dir, rel) ==
  IF dir[Len(dir)] = "/" THEN dir \o rel ELSE dir \o <<"/">> \o rel

absolute(p) == IF is_absolute(p) THEN p ELSE PathJoin(current_path, p)

\* fs::path::parent_path of an absolute path; the root is its own parent.
parent_path(p) ==
  LET slashes == {i \in 1..Len(p) : p[i] = "/"}
      last == CHOOSE i \in slashes : \A j \in slashes : j <= i
  IN IF last = 1 THEN <<"/">> ELSE SubSeq(p, 1, last - 1)

has_parent_path(p) == parent_path(p) # <<>>

exists(fileSystem, p) == absolute(p) \in DOMAIN fileSystem

kMaxParentSearchDepth == 10

NullPath == [found |-> FALSE, path |-> <<>>]

\* The parent walk of resolveCourseFilePath from iteration `depth` on.
RECURSIVE SearchParents(_, _, _, _)
SearchParents(fileSystem, requested, searchDir, depth) ==
  IF depth >= kMaxParentSearchDepth THEN NullPath
  ELSE LET candidate == PathJoin(searchDir, requested)
       IN IF exists(fileSystem, candidate)
          THEN [found |-> TRUE, path |-> absolute(candidate)]
          ELSE IF ~has_parent_path(searchDir) THEN NullPath
          ELSE SearchParents(fileSystem, requested, parent_path(searchDir), depth + 1)

\* resolveCourseFilePath without the walk up the parent directories.
resolveCourseFilePathNoWalk(fileSystem, fileName) ==
  IF fileName = <<>> THEN NullPath
  ELSE IF exists(fileSystem, fileName)
       THEN [found |-> TRUE, path |-> absolute(fileName)]
       ELSE NullPath

resolveCourseFilePath(fileSystem, fileName) ==
  IF fileName = <<>> THEN NullPath
  ELSE IF is_absolute(fileName)
       THEN IF exists(fileSystem, fileName)
            THEN [found |-> TRUE, path |-> absolute(fileName)]
            ELSE NullPath
  ELSE IF exists(fileSystem, fileName)
       THEN [found |-> TRUE, path |-> absolute(fileName)]
  ELSE SearchParents(fileSystem, fileName, current_path, 0)

\* ------------------------------------------------------------ Catalog::load

\* LoadResult as default-constructed.
NewLoadResult ==
  [ok |-> FALSE, courses |-> 0, warnings |-> <<>>,
   missingPrerequisites |-> <<>>, path |-> <<>>]

\* An unordered_map<string, Course> with no entries.
NoCourses == [id \in {} |-> <<>>]

\* An insertion that, like emplace, keeps the entry already stored.
PutKeepsFirst(directory, course) ==
  [id \in DOMAIN directory \cup {course.courseNumber} |->
     IF id \in DOMAIN directory THEN directory[id] ELSE course]

Put(directory, course) ==
  [id \in DOMAIN directory \cup {course.courseNumber} |->
     IF id = course.courseNumber THEN course ELSE directory[id]]

\* The prerequisite loop without the seenPrereqs test: a repeat is kept.
RECURSIVE ScanPrereqsKeepsRepeats(_, _, _, _)
ScanPrereqsKeepsRepeats(columns, i, courseNumber, acc) ==
  IF i > Len(columns) THEN acc
  ELSE IF columns[i] = <<>> THEN ScanPrereqsKeepsRepeats(columns, i + 1, courseNumber, acc)
  ELSE LET prereqId == toUpper(columns[i])
       IN IF ~isCourseIdValid(prereqId)
          THEN ScanPrereqsKeepsRepeats(columns, i + 1, courseNumber,
                 [acc EXCEPT !.warnings = Append(@,
                    MsgSkippingPrereq \o columns[i] \o MsgForCourse
                      \o courseNumber \o <<".">>)])
          ELSE ScanPrereqsKeepsRepeats(columns, i + 1, courseNumber,
                 [acc EXCEPT !.seenPrereqs = @ \cup {prereqId},
                             !.prerequisites = Append(@, prereqId)])

\* The prerequisite loop over columns[i..]; acc holds course.prerequisites,
\* seenPrereqs and the warnings collected so far.
RECURSIVE ScanPrereqs(_, _, _, _)
ScanPrereqs(columns, i, courseNumber, acc) ==
  IF i > Len(columns) THEN acc
  ELSE IF columns[i] = <<>> THEN ScanPrereqs(columns, i + 1, courseNumber, acc)
  ELSE LET prereqId == toUpper(columns[i])
       IN IF ~isCourseIdValid(prereqId)
          THEN ScanPrereqs(columns, i + 1, courseNumber,
                 [acc EXCEPT !.warnings = Append(@,
                    MsgSkippingPrereq \o columns[i] \o MsgForCourse
                      \o courseNumber \o <<".">>)])
          ELSE IF prereqId \in acc.seenPrereqs
          THEN ScanPrereqs(columns, i + 1, courseNumber,
                 [acc EXCEPT !.warnings = Append(@,
                    MsgDuplicatePrereq \o prereqId \o MsgIgnoredForCourse
                      \o courseNumber \o <<".">>)])
          ELSE ScanPrereqs(columns, i + 1, courseNumber,
                 [acc EXCEPT !.seenPrereqs = @ \cup {prereqId},
                             !.prerequisites = Append(@, prereqId)])

\* The columns of a trimmed line: its comma-separated cells, each trimmed.
SplitColumns(line) ==
  LET cells == getline(line, ",")
  IN [i \in 1..Len(cells) |-> trim(cells[i])]

\* AcceptLine resolving prerequisites against the courses read so far: one
\* that is not yet defined (and is not the course itself) is left out.
AcceptLineEager(st, columns, courseId) ==
  LET scanned == ScanPrereqs(columns, 3, courseId,
                   [prerequisites |-> <<>>, seenPrereqs |-> {},
                    warnings |-> st.warnings])
      course == [courseNumber |-> courseId,
                 courseName |-> columns[2],
                 prerequisites |->
                   SelectSeq(scanned.prerequisites,
                             LAMBDA p : p \in DOMAIN st.loadedCourseDirectory \cup {courseId})]
      replaced == IF courseId \in DOMAIN st.loadedCourseDirectory
                  THEN <<MsgReplacing \o courseId \o <<".">>>>
                  ELSE <<>>
  IN [loadedCourseDirectory |-> Put(st.loadedCourseDirectory, course),
      warnings |-> scanned.warnings \o replaced]

\* AcceptLine that looks the identifier up before it reads the prerequisites:
\* the "Replacing" warning comes ahead of the line's prerequisite warnings.
AcceptLineReplacingFirst(st, columns, courseId) ==
  LET replaced == IF courseId \in DOMAIN st.loadedCourseDirectory
                  THEN <<MsgReplacing \o courseId \o <<".">>>>
                  ELSE <<>>
      scanned == ScanPrereqs(columns, 3, courseId,
                   [prerequisites |-> <<>>, seenPrereqs |-> {},
                    warnings |-> st.warnings \o replaced])
      course == [courseNumber |-> courseId,
                 courseName |-> columns[2],
                 prerequisites |-> scanned.prerequisites]
  IN [loadedCourseDirectory |-> Put(st.loadedCourseDirectory, course),
      warnings |-> scanned.warnings]

\* The second half of an iteration of the line loop: a line whose identifier
\* is valid becomes a course and is stored, replacing an earlier one.
AcceptLine(st, columns, courseId) ==
  LET scanned == ScanPrereqs(columns, 3, courseId,
                   [prerequisites |-> <<>>, seenPrereqs |-> {},
                    warnings |-> st.warnings])
      course == [courseNumber |-> courseId,
                 courseName |-> columns[2],
                 prerequisites |-> scanned.prerequisites]
      replaced == IF courseId \in DOMAIN st.loadedCourseDirectory
                  THEN <<MsgReplacing \o courseId \o <<".">>>>
                  ELSE <<>>
  IN [loadedCourseDirectory |-> Put(st.loadedCourseDirectory, course),
      warnings |-> scanned.warnings \o replaced]

\* ParseLine whose invalid-identifier branch warns but does not skip the line.
ParseLineNoContinue(st, rawLine, lineNumber) ==
  LET line == trim(rawLine)
  IN IF line = <<>> THEN st
     ELSE LET columns == SplitColumns(line)
          IN IF Len(columns) < 2
             THEN [st EXCEPT !.warnings = Append(@,
                     MsgSkippingLine \o to_string(lineNumber) \o MsgExpectedIdAndName)]
             ELSE LET courseId == toUpper(columns[1])
                  IN IF ~isCourseIdValid(courseId)
                     THEN AcceptLine(
                            [st EXCEPT !.warnings = Append(@,
                               MsgSkippingLine \o to_string(lineNumber)
                                 \o MsgInvalidCourseId \o columns[1] \o MsgQuoteDot)],
                            columns, courseId)
                     ELSE AcceptLine(st, columns, courseId)

\* One iteration of the line loop: st holds loadedCourseDirectory and warnings.
ParseLine(st, rawLine, lineNumber) ==
  LET line == trim(rawLine)
  IN IF line = <<>> THEN st
     ELSE LET columns == SplitColumns(line)
          IN IF Len(columns) < 2
             THEN [st EXCEPT !.warnings = Append(@,
                     MsgSkippingLine \o to_string(lineNumber) \o MsgExpectedIdAndName)]
             ELSE LET courseId == toUpper(columns[1])
                  IN IF ~isCourseIdValid(courseId)
                     THEN [st EXCEPT !.warnings = Append(@,
                             MsgSkippingLine \o to_string(lineNumber)
                               \o MsgInvalidCourseId \o columns[1] \o MsgQuoteDot)]
                     ELSE AcceptLine(st, columns, courseId)

\* The line loop with ++lineNumber after the blank-line test: blank lines are
\* not counted.
RECURSIVE ParseLinesCountingNonBlank(_, _, _)
ParseLinesCountingNonBlank(st, lines, i) ==
  IF i > Len(lines) THEN st
  ELSE ParseLinesCountingNonBlank(
         ParseLine(st, lines[i], Cardinality({k \in 1..i : trim(lines[k]) # <<>>})),
         lines, i + 1)

\* The line loop over lines[i..].
RECURSIVE ParseLines(_, _, _)
ParseLines(st, lines, i) ==
  IF i > Len(lines) THEN st
  ELSE ParseLines(ParseLine(st, lines[i], i), lines, i + 1)

\* The whole text of a file read line by line.
ParseText(text) ==
  ParseLines([loadedCourseDirectory |-> NoCourses, warnings |-> <<>>],
             getline(text, "\n"), 1)

\* A cross-reference pass that reports every prerequisite, defined or not.
missingSetNoLookup(directory) ==
  UNION {
    {directory[courseId].prerequisites[k] \o MsgReferencedBy \o courseId \o <<")">> :
       k \in 1..Len(directory[courseId].prerequisites)} :
    courseId \in DOMAIN directory}

\* The descriptions of the prerequisites that are no key of the directory
\* (a std::set: the order in which the map is walked leaves no trace).
missingSet(directory) ==
  UNION {
    {directory[courseId].prerequisites[k] \o MsgReferencedBy \o courseId \o <<")">> :
       k \in {j \in 1..Len(directory[courseId].prerequisites) :
                directory[courseId].prerequisites[j] \notin DOMAIN directory}} :
    courseId \in DOMAIN directory}

\* Commit with the swap of the members moved before the emptiness check.
CommitBeforeCheck(cat, result, parsed) ==
  IF DOMAIN parsed.loadedCourseDirectory = {}
  THEN [result |-> [result EXCEPT !.warnings = @ \o parsed.warnings],
        courseDirectory |-> parsed.loadedCourseDirectory,
        sortedCourseIds |-> <<>>]
  ELSE [result |-> [result EXCEPT
                      !.ok = TRUE,
                      !.courses = Cardinality(DOMAIN parsed.loadedCourseDirectory),
                      !.missingPrerequisites =
                         SortStrings(missingSet(parsed.loadedCourseDirectory)),
                      !.warnings = @ \o parsed.warnings],
        courseDirectory |-> parsed.loadedCourseDirectory,
        sortedCourseIds |-> SortStrings(DOMAIN parsed.loadedCourseDirectory)]

\* Commit whose early return forgets the warnings collected.
CommitDropsWarnings(cat, result, parsed) ==
  IF DOMAIN parsed.loadedCourseDirectory = {}
  THEN [result |-> result,
        courseDirectory |-> cat.courseDirectory,
        sortedCourseIds |-> cat.sortedCourseIds]
  ELSE [result |-> [result EXCEPT
                      !.ok = TRUE,
                      !.courses = Cardinality(DOMAIN parsed.loadedCourseDirectory),
                      !.missingPrerequisites =
                         SortStrings(missingSet(parsed.loadedCourseDirectory)),
                      !.warnings = @ \o parsed.warnings],
        courseDirectory |-> parsed.loadedCourseDirectory,
        sortedCourseIds |-> SortStrings(DOMAIN parsed.loadedCourseDirectory)]

\* Commit that parses into the live directory instead of a fresh one.
CommitMerged(cat, result, parsed) ==
  LET merged == [id \in DOMAIN cat.courseDirectory \cup DOMAIN parsed.loadedCourseDirectory |->
                   IF id \in DOMAIN parsed.loadedCourseDirectory
                   THEN parsed.loadedCourseDirectory[id]
                   ELSE cat.courseDirectory[id]]
  IN IF DOMAIN parsed.loadedCourseDirectory = {}
     THEN [result |-> [result EXCEPT !.warnings = @ \o parsed.warnings],
           courseDirectory |-> cat.courseDirectory,
           sortedCourseIds |-> cat.sortedCourseIds]
     ELSE [result |-> [result EXCEPT
                         !.ok = TRUE,
                         !.courses = Cardinality(DOMAIN merged),
                         !.missingPrerequisites = SortStrings(missingSet(merged)),
                         !.warnings = @ \o parsed.warnings],
           courseDirectory |-> merged,
           sortedCourseIds |-> SortStrings(DOMAIN merged)]

\* Commit that appends the new identifiers to sortedCourseIds instead of
\* replacing it.
CommitAppendsIds(cat, result, parsed) ==
  IF DOMAIN parsed.loadedCourseDirectory = {}
  THEN [result |-> [result EXCEPT !.warnings = @ \o parsed.warnings],
        courseDirectory |-> cat.courseDirectory,
        sortedCourseIds |-> cat.sortedCourseIds]
  ELSE [result |-> [result EXCEPT
                      !.ok = TRUE,
                      !.courses = Cardinality(DOMAIN parsed.loadedCourseDirectory),
                      !.missingPrerequisites =
                         SortStrings(missingSet(parsed.loadedCourseDirectory)),
                      !.warnings = @ \o parsed.warnings],
        courseDirectory |-> parsed.loadedCourseDirectory,
        sortedCourseIds |->
          cat.sortedCourseIds \o SortStrings(DOMAIN parsed.loadedCourseDirectory)]

\* Commit that reports the number of accepted lines, a redefinition counted
\* again, instead of the size of the mapping.
CommitCountsAcceptedLines(cat, result, parsed) ==
  IF DOMAIN parsed.loadedCourseDirectory = {}
  THEN [result |-> [result EXCEPT !.warnings = @ \o parsed.warnings],
        courseDirectory |-> cat.courseDirectory,
        sortedCourseIds |-> cat.sortedCourseIds]
  ELSE [result |-> [result EXCEPT
                      !.ok = TRUE,
                      !.courses =
                         Cardinality(DOMAIN parsed.loadedCourseDirectory)
                           + Cardinality({j \in 1..Len(parsed.warnings) :
                                Len(parsed.warnings[j]) >= Len(MsgReplacing)
                                /\ SubSeq(parsed.warnings[j], 1, Len(MsgReplacing))
                                     = MsgReplacing}),
                      !.missingPrerequisites =
                         SortStrings(missingSet(parsed.loadedCourseDirectory)),
                      !.warnings = @ \o parsed.warnings],
        courseDirectory |-> parsed.loadedCourseDirectory,
        sortedCourseIds |-> SortStrings(DOMAIN parsed.loadedCourseDirectory)]

\* What the parse of an opened file makes of the catalog and the result.
Commit(cat, result, parsed) ==
  IF DOMAIN parsed.loadedCourseDirectory = {}
  THEN [result |-> [result EXCEPT !.warnings = @ \o parsed.warnings],
        courseDirectory |-> cat.courseDirectory,
        sortedCourseIds |-> cat.sortedCourseIds]
  ELSE [result |-> [result EXCEPT
                      !.ok = TRUE,
                      !.courses = Cardinality(DOMAIN parsed.loadedCourseDirectory),
                      !.missingPrerequisites =
                         SortStrings(missingSet(parsed.loadedCourseDirectory)),
                      !.warnings = @ \o parsed.warnings],
        courseDirectory |-> parsed.loadedCourseDirectory,
        sortedCourseIds |-> SortStrings(DOMAIN parsed.loadedCourseDirectory)]

\* load without the is_open test: a stream that failed to open yields no line.
loadWithoutOpenCheck(fileSystem, cat, fileName) ==
  IF fileName = <<>>
  THEN [result |-> [NewLoadResult EXCEPT !.warnings = <<MsgFileNameEmpty>>],
        courseDirectory |-> cat.courseDirectory,
        sortedCourseIds |-> cat.sortedCourseIds]
  ELSE LET resolvedPath == resolveCourseFilePath(fileSystem, fileName)
       IN IF ~resolvedPath.found
          THEN [result |-> [NewLoadResult EXCEPT
                              !.warnings = <<MsgUnableToLocate \o fileName>>,
                              !.path = fileName],
                courseDirectory |-> cat.courseDirectory,
                sortedCourseIds |-> cat.sortedCourseIds]
          ELSE Commit(cat, [NewLoadResult EXCEPT !.path = resolvedPath.path],
                      ParseText(IF fileSystem[resolvedPath.path].openable
                                THEN fileSystem[resolvedPath.path].text
                                ELSE <<>>))

\* Catalog::load on the catalog cat = [courseDirectory, sortedCourseIds]:
\* the LoadResult returned and the catalog's two members afterwards.
load(fileSystem, cat, fileName) ==
  IF fileName = <<>>
  THEN [result |-> [NewLoadResult EXCEPT !.warnings = <<MsgFileNameEmpty>>],
        courseDirectory |-> cat.courseDirectory,
        sortedCourseIds |-> cat.sortedCourseIds]
  ELSE LET resolvedPath == resolveCourseFilePath(fileSystem, fileName)
       IN IF ~resolvedPath.found
          THEN [result |-> [NewLoadResult EXCEPT
                              !.warnings = <<MsgUnableToLocate \o fileName>>,
                              !.path = fileName],
                courseDirectory |-> cat.courseDirectory,
                sortedCourseIds |-> cat.sortedCourseIds]
          ELSE IF ~fileSystem[resolvedPath.path].openable
          THEN [result |-> [NewLoadResult EXCEPT
                              !.warnings = <<MsgUnableToOpen \o resolvedPath.path>>,
                              !.path = resolvedPath.path],
                courseDirectory |-> cat.courseDirectory,
                sortedCourseIds |-> cat.sortedCourseIds]
          ELSE Commit(cat, [NewLoadResult EXCEPT !.path = resolvedPath.path],
                      ParseText(fileSystem[resolvedPath.path].text))

\* ------------------------------------------------------------------- state

VARIABLES
  files,            \* the file system: absolute path -> [openable, text]
  courseDirectory,  \* Catalog::courseDirectory
  sortedCourseIds,  \* Catalog::sortedCourseIds
  lastLoadResult,   \* the LoadResult the caller keeps from its latest load
  lastCall,         \* the latest call on the catalog and its argument
  before,           \* the catalog's members when the latest call began
  token,            \* the string handed to the identifier validator
  verdict,          \* the validator's answer: "none", "valid" or "invalid"
  previous,         \* lastCall and lastLoadResult when the latest call began
  returned,         \* the caller's vector, as the latest ids() returned it
  frame,            \* the locals of the load under way and the place it is at
  process,          \* where a front end is: "start", "menu", "window" or "exited"
  argv,             \* the arguments after the program's name
  loadedData,       \* the menu's flag loadedData
  currentCatalogPath, \* the menu's, or the window's, currentCatalogPath
  courseIds,        \* CourseListModel::courseIds, the rows of the list view
  screen,           \* what the latest front-end action showed or launched
  loadedFrom        \* result.path of the latest load that succeeded, if any

\* The state of the front ends.
shell == <<process, argv, loadedData, currentCatalogPath, courseIds, screen, loadedFrom>>

vars == <<files, courseDirectory, sortedCourseIds, lastLoadResult, lastCall,
          before, token, verdict, previous, returned, frame, shell>>

\* Catalog::get on a catalog: the set holding the course found, empty for nullptr.
getIn(cat, id) ==
  IF id \in DOMAIN cat.courseDirectory THEN {cat.courseDirectory[id]} ELSE {}

\* Catalog::ids on a catalog: a copy of the sorted identifiers.
idsIn(cat) == cat.sortedCourseIds

catalog == [courseDirectory |-> courseDirectory, sortedCourseIds |-> sortedCourseIds]

get(id) == getIn(catalog, id)

ids == idsIn(catalog)

\* ------------------------------------------------------------------ inputs

\* Lines of text a file may hold.
LineForwardRef == <<"b","2",",","T",",","a","1">>                  \* b2,T,a1
LinePlain      == <<"A","1",",","U">>                              \* A1,U
LineRedefine   == <<" ","a","1"," ",",","V",",","C","3",",","c","3","\r">>  \*  a1 ,V,C3,c3<CR>
LineBadId      == <<"1","A",",","T">>                              \* 1A,T
LineOneField   == <<"A","1",",">>                                  \* A1,
LineBlank      == <<" ","\t">>                                     \* <SP><TAB>
LineMixed      == <<"C","3",",","W",",",",","x","-","1",",","d","4",",","D","4",",","C","3">>  \* C3,W,,x-1,d4,D4,C3

LinePool ==
  {LineForwardRef, LinePlain, LineRedefine, LineBadId, LineOneField, LineBlank, LineMixed}

\* The text of a file holding the given lines, each ended by a newline.
RECURSIVE JoinLines(_)
JoinLines(lines) ==
  IF lines = <<>> THEN <<>>
  ELSE lines[1] \o <<"\n">> \o JoinLines(Tail(lines))

\* Texts of at most n lines.
TextsUpTo(n) == {JoinLines(ls) : ls \in UNION {[1..k -> LinePool] : k \in 0..n}}

\* Texts of the second file: no valid record, or two courses of its own.
SecondTexts == {JoinLines(<<LineBadId>>), JoinLines(<<LineRedefine, LineForwardRef>>)}

FileA == <<"a">>
FileB == <<"b">>

\* The directories from the given one up to the root.
RECURSIVE Ancestors(_)
Ancestors(dir) ==
  IF parent_path(dir) = dir THEN {dir} ELSE {dir} \cup Ancestors(parent_path(dir))

\* File names handed to load.
FileNames == {<<>>, FileA, FileB, PathJoin(current_path, FileB)}

OneFile(t) ==
  [p \in {PathJoin(current_path, FileA)} |-> [openable |-> TRUE, text |-> t]]

TwoFiles(t, dir, o, u) ==
  [p \in {PathJoin(current_path, FileA), PathJoin(dir, FileB)} |->
     IF p = PathJoin(current_path, FileA)
     THEN [openable |-> TRUE, text |-> t]
     ELSE [openable |-> o, text |-> u]]

\* The directories file "b" may lie in: the current directory, its parent,
\* and the three directories nearest the root.
SecondFileDirs == {DirAtDepth(k) : k \in {0, 1, 2, CwdDepth - 1, CwdDepth} \cap 0..CwdDepth}

\* File "a" in the current directory and a file "b" in each of two directories.
NestedCopies(near, far, u, v) ==
  [p \in {PathJoin(current_path, FileA), PathJoin(near, FileB), PathJoin(far, FileB)} |->
     IF p = PathJoin(current_path, FileA)
     THEN [openable |-> TRUE, text |-> JoinLines(<<LinePlain>>)]
     ELSE IF p = PathJoin(near, FileB)
     THEN [openable |-> TRUE, text |-> u]
     ELSE [openable |-> TRUE, text |-> v]]

\* File "a" lies in the current directory.  File "b" is absent; or lies
\* beside it, readable or not; or lies in a directory above, "a" holding one
\* plain course; or lies in two directories one above the other.
FileSystems ==
  {OneFile(t) : t \in TextsUpTo(MaxLines)}
  \cup {TwoFiles(t, current_path, o, u) :
          t \in TextsUpTo(MaxPairLines), o \in BOOLEAN, u \in SecondTexts}
  \cup {TwoFiles(JoinLines(<<LinePlain>>), dir, TRUE, u) :
          dir \in SecondFileDirs, u \in SecondTexts}
  \cup {NestedCopies(near, parent_path(near), w[1], w[2]) :
          near \in {current_path, parent_path(current_path)},
          w \in {x \in SecondTexts \X SecondTexts : x[1] # x[2]}}

\* Characters of the tokens handed to the validator on its own.
TokenChars == {"A", "z", "0", "7", "-", " "}

Tokens == UNION {[1..n -> TokenChars] : n \in 0..MaxTokenLen}

\* ------------------------------------------------------------- transitions

NoCall == [op |-> "none", fileName |-> <<>>]

NewCatalog == [courseDirectory |-> NoCourses, sortedCourseIds |-> <<>>]

NoPrevious == [call |-> NoCall, result |-> NewLoadResult]

\* No load is under way.
IdleFrame ==
  [pc |-> "idle", fileName |-> <<>>, result |-> NewLoadResult, lines |-> <<>>,
   lineNumber |-> 0, loadedCourseDirectory |-> NoCourses, warnings |-> <<>>,
   sortedIds |-> <<>>]

\* Nothing has been shown.
NoScreen == [choice |-> "none", op |-> "none"]

\* No front end has started.
NoFrontEnd ==
  /\ process = "start"
  /\ argv = <<>>
  /\ loadedData = FALSE
  /\ currentCatalogPath = <<>>
  /\ courseIds = <<>>
  /\ screen = NoScreen
  /\ loadedFrom = <<>>

\* A newly constructed Catalog in a process given the file system fileSystem.
Constructed(fileSystem) ==
  /\ files = fileSystem
  /\ courseDirectory = NoCourses
  /\ sortedCourseIds = <<>>
  /\ lastLoadResult = NewLoadResult
  /\ lastCall = NoCall
  /\ before = NewCatalog
  /\ token = <<>>
  /\ verdict = "none"
  /\ previous = NoPrevious
  /\ returned = <<>>
  /\ frame = IdleFrame
  /\ NoFrontEnd

Init == \E fileSystem \in FileSystems : Constructed(fileSystem)

\* What a call of Catalog::load(fileName) does to the catalog and its caller.
LoadCall(fileName) ==
  LET out == load(files, catalog, fileName)
  IN /\ courseDirectory' = out.courseDirectory
     /\ sortedCourseIds' = out.sortedCourseIds
     /\ lastLoadResult' = out.result
     /\ lastCall' = [op |-> "load", fileName |-> fileName]
     /\ before' = catalog

\* A call of Catalog::load(fileName).
Load(fileName) ==
  /\ LoadCall(fileName)
  /\ UNCHANGED <<files, token, verdict, previous, returned, frame, shell>>

Next == \E fileName \in FileNames : Load(fileName)

Spec == Init /\ [][Next]_vars

\* The identifier validator on its own: a token is drawn and validated once.
InitValidator ==
  /\ files = OneFile(<<>>)
  /\ courseDirectory = NoCourses
  /\ sortedCourseIds = <<>>
  /\ lastLoadResult = NewLoadResult
  /\ lastCall = NoCall
  /\ before = NewCatalog
  /\ token \in Tokens
  /\ verdict = "none"
  /\ previous = NoPrevious
  /\ returned = <<>>
  /\ frame = IdleFrame
  /\ NoFrontEnd

Validate ==
  /\ verdict = "none"
  /\ verdict' = IF isCourseIdValid(token) THEN "valid" ELSE "invalid"
  /\ UNCHANGED <<files, courseDirectory, sortedCourseIds, lastLoadResult,
                 lastCall, before, token, previous, returned, frame, shell>>

NextValidator == Validate

SpecValidator == InitValidator /\ [][NextValidator]_vars

\* A process with the one file "a", loaded again and again by its name.
InitParse == \E text \in TextsUpTo(MaxLines) : Constructed(OneFile(text))

NextParse == Load(FileA)

SpecParse == InitParse /\ [][NextParse]_vars

\* Successive loads, each remembering the call before it and what it returned.
ReloadFileSystems ==
  {TwoFiles(t, dir, o, u) :
     t \in TextsUpTo(MaxPairLines), dir \in {current_path, parent_path(current_path)},
     o \in BOOLEAN, u \in SecondTexts}

InitReload == \E fileSystem \in ReloadFileSystems : Constructed(fileSystem)

LoadAfter(fileName) ==
  /\ LoadCall(fileName)
  /\ previous' = [call |-> lastCall, result |-> lastLoadResult]
  /\ UNCHANGED <<files, token, verdict, returned, frame, shell>>

NextReload == \E fileName \in FileNames : LoadAfter(fileName)

SpecReload == InitReload /\ [][NextReload]_vars

\* Calls of get and ids between loads, by a caller that keeps the vector ids
\* returned and changes it as it pleases.
ReadersFileSystems ==
  {TwoFiles(t, current_path, TRUE, u) : t \in TextsUpTo(MaxPairLines), u \in SecondTexts}

InitReaders == \E fileSystem \in ReadersFileSystems : Constructed(fileSystem)

\* Identifiers handed to get: one the files define, and two they do not.
GetArgs == {<<"A","1">>, <<"a","1">>, <<"Z","9">>}

\* A get that looks the identifier up with operator[], which inserts a
\* default-constructed Course under an absent key.
GetInserting(id) ==
  /\ frame.pc = "idle"
  /\ courseDirectory' =
       [x \in DOMAIN courseDirectory \cup {id} |->
          IF x \in DOMAIN courseDirectory THEN courseDirectory[x]
          ELSE [courseNumber |-> <<>>, courseName |-> <<>>, prerequisites |-> <<>>]]
  /\ lastCall' = [op |-> "get", id |-> id, found |-> get(id)]
  /\ before' = catalog
  /\ UNCHANGED <<files, sortedCourseIds, lastLoadResult, token, verdict,
                 previous, returned, frame, shell>>

\* A call of Catalog::get(id), by a caller that is not inside load.
Get(id) ==
  /\ frame.pc = "idle"
  /\ lastCall' = [op |-> "get", id |-> id, found |-> get(id)]
  /\ before' = catalog
  /\ UNCHANGED <<files, courseDirectory, sortedCourseIds, lastLoadResult,
                 token, verdict, previous, returned, frame, shell>>

\* A call of Catalog::ids(): the caller receives a vector of its own.
Ids ==
  /\ frame.pc = "idle"
  /\ returned' = ids
  /\ lastCall' = [op |-> "ids"]
  /\ before' = catalog
  /\ UNCHANGED <<files, courseDirectory, sortedCourseIds, lastLoadResult,
                 token, verdict, previous, frame, shell>>

\* The caller changes the vector it holds: it drops the first element or
\* overwrites it.
MutateReturned ==
  /\ returned # <<>>
  /\ returned' \in {Tail(returned), [returned EXCEPT ![1] = <<"Z","9">>]}
  /\ UNCHANGED <<files, courseDirectory, sortedCourseIds, lastLoadResult,
                 lastCall, before, token, verdict, previous, frame, shell>>

NextReaders ==
  \/ \E fileName \in FileNames : Load(fileName)
  \/ \E id \in GetArgs : Get(id)
  \/ Ids
  \/ MutateReturned

SpecReaders == InitReaders /\ [][NextReaders]_vars

\* Catalog::load statement by statement.  The caller of get and ids is the
\* thread that runs load, so neither is called while a load is under way.
StepsFileSystems ==
  {TwoFiles(t, current_path, o, u) :
     t \in TextsUpTo(MaxPairLines), o \in BOOLEAN, u \in SecondTexts}

InitSteps == \E fileSystem \in StepsFileSystems : Constructed(fileSystem)

\* The call: LoadResult result is default-constructed.
BeginLoad(fileName) ==
  /\ frame.pc = "idle"
  /\ frame' = [IdleFrame EXCEPT !.pc = "resolve", !.fileName = fileName]
  /\ lastCall' = [op |-> "load", fileName |-> fileName]
  /\ before' = catalog
  /\ UNCHANGED <<files, courseDirectory, sortedCourseIds, lastLoadResult,
                 token, verdict, previous, returned, shell>>

\* The name is tested, resolved and opened; the locals of the parse are made.
Resolve ==
  /\ frame.pc = "resolve"
  /\ frame' =
       IF frame.fileName = <<>>
       THEN [frame EXCEPT !.result.warnings = <<MsgFileNameEmpty>>, !.pc = "return"]
       ELSE LET resolvedPath == resolveCourseFilePath(files, frame.fileName)
            IN IF ~resolvedPath.found
               THEN [frame EXCEPT
                       !.result.warnings = <<MsgUnableToLocate \o frame.fileName>>,
                       !.result.path = frame.fileName,
                       !.pc = "return"]
               ELSE IF ~files[resolvedPath.path].openable
               THEN [frame EXCEPT
                       !.result.path = resolvedPath.path,
                       !.result.warnings = <<MsgUnableToOpen \o resolvedPath.path>>,
                       !.pc = "return"]
               ELSE [frame EXCEPT
                       !.result.path = resolvedPath.path,
                       !.lines = getline(files[resolvedPath.path].text, "\n"),
                       !.lineNumber = 0,
                       !.loadedCourseDirectory = NoCourses,
                       !.warnings = <<>>,
                       !.pc = "parse"]
  /\ UNCHANGED <<files, courseDirectory, sortedCourseIds, lastLoadResult,
                 lastCall, before, token, verdict, previous, returned, shell>>

\* An iteration of the line loop that stores the accepted course in the
\* catalog's own mapping as well.
ParseStepIntoLive ==
  /\ frame.pc = "parse"
  /\ frame.lineNumber < Len(frame.lines)
  /\ LET st == ParseLine([loadedCourseDirectory |-> frame.loadedCourseDirectory,
                          warnings |-> frame.warnings],
                         frame.lines[frame.lineNumber + 1], frame.lineNumber + 1)
     IN /\ frame' = [frame EXCEPT
                       !.lineNumber = @ + 1,
                       !.loadedCourseDirectory = st.loadedCourseDirectory,
                       !.warnings = st.warnings]
        /\ courseDirectory' = st.loadedCourseDirectory
  /\ UNCHANGED <<files, sortedCourseIds, lastLoadResult,
                 lastCall, before, token, verdict, previous, returned, shell>>

\* One iteration of the line loop.
ParseStep ==
  /\ frame.pc = "parse"
  /\ frame.lineNumber < Len(frame.lines)
  /\ LET st == ParseLine([loadedCourseDirectory |-> frame.loadedCourseDirectory,
                          warnings |-> frame.warnings],
                         frame.lines[frame.lineNumber + 1], frame.lineNumber + 1)
     IN frame' = [frame EXCEPT
                    !.lineNumber = @ + 1,
                    !.loadedCourseDirectory = st.loadedCourseDirectory,
                    !.warnings = st.warnings]
  /\ UNCHANGED <<files, courseDirectory, sortedCourseIds, lastLoadResult,
                 lastCall, before, token, verdict, previous, returned, shell>>

\* The end of the file: the early return, or the cross-reference pass, the
\* sort and the filling of the result.
EndParse ==
  /\ frame.pc = "parse"
  /\ frame.lineNumber = Len(frame.lines)
  /\ frame' =
       IF DOMAIN frame.loadedCourseDirectory = {}
       THEN [frame EXCEPT !.result.warnings = @ \o frame.warnings, !.pc = "return"]
       ELSE [frame EXCEPT
               !.sortedIds = SortStrings(DOMAIN frame.loadedCourseDirectory),
               !.result.ok = TRUE,
               !.result.courses = Cardinality(DOMAIN frame.loadedCourseDirectory),
               !.result.missingPrerequisites =
                  SortStrings(missingSet(frame.loadedCourseDirectory)),
               !.result.warnings = @ \o frame.warnings,
               !.pc = "commitDirectory"]
  /\ UNCHANGED <<files, courseDirectory, sortedCourseIds, lastLoadResult,
                 lastCall, before, token, verdict, previous, returned, shell>>

\* courseDirectory = std::move(loadedCourseDirectory): the local is left empty.
CommitDirectory ==
  /\ frame.pc = "commitDirectory"
  /\ courseDirectory' = frame.loadedCourseDirectory
  /\ frame' = [frame EXCEPT !.loadedCourseDirectory = NoCourses, !.pc = "commitIds"]
  /\ UNCHANGED <<files, sortedCourseIds, lastLoadResult,
                 lastCall, before, token, verdict, previous, returned, shell>>

\* sortedCourseIds = std::move(sortedIds).
CommitIds ==
  /\ frame.pc = "commitIds"
  /\ sortedCourseIds' = frame.sortedIds
  /\ frame' = [frame EXCEPT !.sortedIds = <<>>, !.pc = "return"]
  /\ UNCHANGED <<files, courseDirectory, lastLoadResult,
                 lastCall, before, token, verdict, previous, returned, shell>>

\* load returns result to its caller.
Return ==
  /\ frame.pc = "return"
  /\ lastLoadResult' = frame.result
  /\ frame' = IdleFrame
  /\ UNCHANGED <<files, courseDirectory, sortedCourseIds,
                 lastCall, before, token, verdict, previous, returned, shell>>

NextSteps ==
  \/ \E fileName \in FileNames : BeginLoad(fileName)
  \/ Resolve
  \/ ParseStep
  \/ EndParse
  \/ CommitDirectory
  \/ CommitIds
  \/ Return
  \/ \E id \in GetArgs : Get(id)
  \/ Ids

SpecSteps == InitSteps /\ [][NextSteps]_vars

\* ------------------------------------------------------------ the menu (CLI)

\* The menu of src/src/cli/main_cli.cpp.  Its trim, toUpper and
\* isCourseIdValid (lines 244-291) are copies of the core's, statement for
\* statement, and are the operators of the same names above.

kDefaultCourseCSVFile ==
  <<"d","a","t","a","/","C","S"," ","3","0","0"," ","A","B","C","U","_",
    "A","d","v","i","s","i","n","g","_","P","r","o","g","r","a","m","_",
    "I","n","p","u","t",".","c","s","v">>

MsgPleaseLoad == "Please load courses first (option 1)."

MsgNoCoursesToDisplay == "No courses available to display."

MsgMustStartWithLetters == "Course number must start with letters and end with digits."

MsgCourseNotFound == "Course not found: "

MsgBadOption == "Error, please enter option 1, 2, 3, 4, or 9."

\* removeTrailingComma: one final comma is dropped and the rest trimmed.
removeTrailingComma(text) ==
  IF text # <<>> /\ text[Len(text)] = ","
  THEN trim(SubSeq(text, 1, Len(text) - 1))
  ELSE text

\* The loop of normalizeCourseIdInput from character i on: the letters, then
\* the digits, up to the first character that fits neither.
RECURSIVE ParseCourseId(_, _, _, _)
ParseCourseId(input, i, hasDigit, parsedId) ==
  IF i > Len(input) THEN parsedId
  ELSE IF isalpha(input[i])
       THEN IF hasDigit THEN parsedId
            ELSE ParseCourseId(input, i + 1, hasDigit, Append(parsedId, input[i]))
  ELSE IF isdigit(input[i])
       THEN ParseCourseId(input, i + 1, TRUE, Append(parsedId, input[i]))
  ELSE parsedId

\* std::nullopt.
nullopt == [has_value |-> FALSE]

\* A normalizeCourseIdInput that compares the identifier with what was typed.
normalizeCourseIdInputAgainstTyped(typed) ==
  LET input == removeTrailingComma(toUpper(trim(typed)))
  IN IF input = <<>> THEN nullopt
     ELSE LET parsedId == ParseCourseId(input, 1, FALSE, <<>>)
          IN IF ~isCourseIdValid(parsedId) THEN nullopt
             ELSE [has_value |-> TRUE, id |-> parsedId, wasTrimmed |-> parsedId # typed]

normalizeCourseIdInput(typed) ==
  LET input == removeTrailingComma(toUpper(trim(typed)))
  IN IF input = <<>> THEN nullopt
     ELSE LET parsedId == ParseCourseId(input, 1, FALSE, <<>>)
          IN IF ~isCourseIdValid(parsedId) THEN nullopt
             ELSE [has_value |-> TRUE, id |-> parsedId, wasTrimmed |-> parsedId # input]

\* The files a front end is run among: "a" in the current directory holds
\* one course, a course with a prerequisite no line defines, or no course;
\* "b" lies beside it or one directory up, readable or not, with no course or
\* with two.
FrontEndTexts ==
  {JoinLines(<<LinePlain>>), JoinLines(<<LineForwardRef>>), JoinLines(<<LineBadId>>)}

FrontEndFileSystems ==
  {TwoFiles(t, dir, o, u) :
     t \in FrontEndTexts, dir \in {current_path, parent_path(current_path)},
     o \in BOOLEAN, u \in SecondTexts}

\* The menu starts with nothing loaded.
InitCli == \E fileSystem \in FrontEndFileSystems : Constructed(fileSystem)

\* main: the menu loop is entered.
StartMenu ==
  /\ process = "start"
  /\ process' = "menu"
  /\ UNCHANGED <<files, courseDirectory, sortedCourseIds, lastLoadResult, lastCall,
                 before, token, verdict, previous, returned, frame,
                 argv, loadedData, currentCatalogPath, courseIds, screen, loadedFrom>>

\* What is typed at "Enter file name: ".
TypedFileNames == {<<>>, FileA, <<" ">> \o FileB \o <<",", " ">>, <<"c">>}

\* The name option 1 hands to loadCoursesFromFile for what was typed.
FileNameTyped(typed) ==
  LET trimmed == trim(typed)
      fileName == IF trimmed # <<>> /\ trimmed[Len(trimmed)] = ","
                  THEN removeTrailingComma(trimmed)
                  ELSE trimmed
  IN IF fileName = <<>> THEN kDefaultCourseCSVFile ELSE fileName

\* A loadCoursesFromFile that stores the path before it tests the flag.
loadCoursesFromFileStoringPathFirst(fileName) ==
  LET out == load(files, catalog, fileName)
  IN /\ LoadCall(fileName)
     /\ loadedData' = out.result.ok
     /\ currentCatalogPath' = out.result.path
     /\ loadedFrom' = IF out.result.ok THEN out.result.path ELSE loadedFrom
     /\ screen' = [choice |-> "1", op |-> "loadCoursesFromFile",
                   fileName |-> fileName, loaded |-> out.result.ok]

loadCoursesFromFile(fileName) ==
  LET out == load(files, catalog, fileName)
  IN /\ LoadCall(fileName)
     /\ loadedData' = out.result.ok
     /\ currentCatalogPath' =
          IF out.result.ok THEN out.result.path ELSE currentCatalogPath
     /\ loadedFrom' = IF out.result.ok THEN out.result.path ELSE loadedFrom
     /\ screen' = [choice |-> "1", op |-> "loadCoursesFromFile",
                   fileName |-> fileName, loaded |-> out.result.ok]

\* Option 1: the file name is read, cleaned and loaded.
ChooseLoad(typed) ==
  /\ process = "menu"
  /\ loadCoursesFromFile(FileNameTyped(typed))
  /\ UNCHANGED <<files, token, verdict, previous, returned, frame,
                 process, argv, courseIds>>

\* printAllCourses: the lines printed, one for each identifier of ids().
printAllCourses ==
  IF ids = <<>>
  THEN [op |-> "printAllCourses", message |-> MsgNoCoursesToDisplay, lines |-> <<>>]
  ELSE [op |-> "printAllCourses", message |-> "Course List",
        lines |-> [i \in 1..Len(ids) |->
                     IF get(ids[i]) = {} THEN <<>>
                     ELSE LET course == CHOOSE c \in get(ids[i]) : TRUE
                          IN course.courseNumber \o <<",", " ">> \o course.courseName]]

\* Option 2 without the test of loadedData.
ChoosePrintUngated ==
  /\ process = "menu"
  /\ screen' = [choice |-> "2"] @@ printAllCourses
  /\ lastCall' = [op |-> "ids"]
  /\ before' = catalog
  /\ UNCHANGED <<files, courseDirectory, sortedCourseIds, lastLoadResult,
                 token, verdict, previous, returned, frame,
                 process, argv, loadedData, currentCatalogPath, courseIds, loadedFrom>>

\* Option 2: the course list, once courses are loaded.
ChoosePrint ==
  /\ process = "menu"
  /\ IF ~loadedData
     THEN /\ screen' = [choice |-> "2", op |-> "none", message |-> MsgPleaseLoad]
          /\ UNCHANGED <<lastCall, before>>
     ELSE /\ screen' = [choice |-> "2"] @@ printAllCourses
          /\ lastCall' = [op |-> "ids"]
          /\ before' = catalog
  /\ UNCHANGED <<files, courseDirectory, sortedCourseIds, lastLoadResult,
                 token, verdict, previous, returned, frame,
                 process, argv, loadedData, currentCatalogPath, courseIds, loadedFrom>>

\* What is typed at "Enter the course number: ".
TypedCourseNumbers ==
  {<<" ", "a", "1", ",">>, <<"b", "2", "x">>, <<"Z", "9">>, <<"1", "A">>, <<>>}

\* handleCourseLookup on the line typed: what it prints.
handleCourseLookup(typed) ==
  LET sanitizedId == normalizeCourseIdInput(typed)
  IN IF ~sanitizedId.has_value
     THEN [op |-> "handleCourseLookup", message |-> MsgMustStartWithLetters]
     ELSE IF get(sanitizedId.id) = {}
     THEN [op |-> "handleCourseLookup", message |-> MsgCourseNotFound,
           id |-> sanitizedId.id, searching |-> sanitizedId.wasTrimmed]
     ELSE [op |-> "handleCourseLookup", message |-> "details",
           id |-> sanitizedId.id, searching |-> sanitizedId.wasTrimmed,
           course |-> CHOOSE c \in get(sanitizedId.id) : TRUE]

\* Option 3: a course looked up, once courses are loaded.
ChooseLookup(typed) ==
  /\ process = "menu"
  /\ IF ~loadedData
     THEN /\ screen' = [choice |-> "3", op |-> "none", message |-> MsgPleaseLoad]
          /\ UNCHANGED <<lastCall, before>>
     ELSE /\ screen' = [choice |-> "3"] @@ handleCourseLookup(typed)
          /\ IF normalizeCourseIdInput(typed).has_value
             THEN /\ lastCall' = [op |-> "get", id |-> normalizeCourseIdInput(typed).id,
                                  found |-> get(normalizeCourseIdInput(typed).id)]
                  /\ before' = catalog
             ELSE UNCHANGED <<lastCall, before>>
  /\ UNCHANGED <<files, courseDirectory, sortedCourseIds, lastLoadResult,
                 token, verdict, previous, returned, frame,
                 process, argv, loadedData, currentCatalogPath, courseIds, loadedFrom>>

\* launchDashboard: the arguments of the command run, after the program's
\* name.  The path is passed between double quotes, as one argument.
launchDashboard ==
  [op |-> "launchDashboard",
   arguments |-> IF currentCatalogPath # <<>> THEN <<currentCatalogPath>> ELSE <<>>]

\* Option 4: the dashboard is launched.
ChooseDashboard ==
  /\ process = "menu"
  /\ screen' = [choice |-> "4"] @@ launchDashboard
  /\ UNCHANGED <<files, courseDirectory, sortedCourseIds, lastLoadResult, lastCall,
                 before, token, verdict, previous, returned, frame,
                 process, argv, loadedData, currentCatalogPath, courseIds, loadedFrom>>

\* Any other choice but 9.
ChooseOther ==
  /\ process = "menu"
  /\ screen' = [choice |-> "other", op |-> "none", message |-> MsgBadOption]
  /\ UNCHANGED <<files, courseDirectory, sortedCourseIds, lastLoadResult, lastCall,
                 before, token, verdict, previous, returned, frame,
                 process, argv, loadedData, currentCatalogPath, courseIds, loadedFrom>>

\* Option 9, or the end of the input: the loop is left.
ChooseExit ==
  /\ process = "menu"
  /\ process' = "exited"
  /\ screen' = [choice |-> "9", op |-> "none", message |-> "Goodbye."]
  /\ UNCHANGED <<files, courseDirectory, sortedCourseIds, lastLoadResult, lastCall,
                 before, token, verdict, previous, returned, frame,
                 argv, loadedData, currentCatalogPath, courseIds, loadedFrom>>

NextCli ==
  \/ StartMenu
  \/ \E typed \in TypedFileNames : ChooseLoad(typed)
  \/ ChoosePrint
  \/ \E typed \in TypedCourseNumbers : ChooseLookup(typed)
  \/ ChooseDashboard
  \/ ChooseOther
  \/ ChooseExit

SpecCli == InitCli /\ [][NextCli]_vars

\* normalizeCourseIdInput on its own: a line is typed and normalized once.
TypedChars == {"a", "B", "1", ",", " ", "-"}

TypedLines == UNION {[1..n -> TypedChars] : n \in 0..MaxTokenLen}

InitNormalize ==
  /\ files = OneFile(<<>>)
  /\ courseDirectory = NoCourses
  /\ sortedCourseIds = <<>>
  /\ lastLoadResult = NewLoadResult
  /\ lastCall = NoCall
  /\ before = NewCatalog
  /\ token \in TypedLines
  /\ verdict = "none"
  /\ previous = NoPrevious
  /\ returned = <<>>
  /\ frame = IdleFrame
  /\ NoFrontEnd

Normalize ==
  /\ screen = NoScreen
  /\ screen' = [choice |-> "none", op |-> "normalizeCourseIdInput",
                result |-> normalizeCourseIdInput(token)]
  /\ UNCHANGED <<files, courseDirectory, sortedCourseIds, lastLoadResult, lastCall,
                 before, token, verdict, previous, returned, frame,
                 process, argv, loadedData, currentCatalogPath, courseIds, loadedFrom>>

NextNormalize == Normalize

SpecNormalize == InitNormalize /\ [][NextNormalize]_vars

\* -------------------------------------------------------- the window (GUI)

\* The dashboard of src/src/gui/main_gui.cpp and src/mainwindow.cpp.  A
\* QString is the sequence of its UTF-16 code units; std::string and QString
\* are converted into each other character by character, every character of
\* the model being an ASCII one.  In this process lastLoadResult is
\* MainWindow::lastLoadResult and currentCatalogPath is a QString.

\* The character codes of AsciiOrder, in the same order.
AsciiCodes ==
  <<9, 10, 13, 32, 39, 40, 41, 44, 45, 46, 47>>
    \o [i \in 1..10 |-> 47 + i] \o <<58>> \o [i \in 1..26 |-> 64 + i]
    \o <<95>> \o [i \in 1..26 |-> 96 + i]

CodeOf == [c \in Range(AsciiOrder) |-> AsciiCodes[CharCode[c]]]

\* QString::fromStdString: the code unit of each byte.
fromStdString(s) == [i \in 1..Len(s) |-> CodeOf[s[i]]]

CharOf == [code \in Range(AsciiCodes) |-> CHOOSE c \in Range(AsciiOrder) : CodeOf[c] = code]

\* QString::toStdString: the byte of each code unit.
toStdString(q) == [i \in 1..Len(q) |-> CharOf[q[i]]]

\* QString::isEmpty.
isEmpty(q) == Len(q) = 0

\* QChar::isSpace on the codes of the model: tab to carriage return, and space.
isSpace(code) == code \in 9..13 \/ code = 32

\* QString::trimmed.
trimmed(q) ==
  LET keep == {i \in 1..Len(q) : ~isSpace(q[i])}
  IN IF keep = {} THEN <<>>
     ELSE LET first == CHOOSE i \in keep : \A j \in keep : i <= j
              last  == CHOOSE i \in keep : \A j \in keep : j <= i
          IN SubSeq(q, first, last)

\* QString::toUpper on the codes of the model.
QStringToUpper(q) == [i \in 1..Len(q) |-> IF q[i] \in 97..122 THEN q[i] - 32 ELSE q[i]]

\* QString::compare(..., Qt::CaseInsensitive) == 0.
SameIgnoringCase(q, r) == QStringToUpper(q) = QStringToUpper(r)

MsgLoadACatalogFirst == "Load a catalog first."

MsgAllPrerequisitesFound == "All prerequisites were found in the catalog."

MsgFollowingMissing == "The following prerequisites reference missing courses:"

MsgUnableToLoadCatalog == "Unable to load catalog: "

MsgLoadedCourses == "Loaded %1 courses from %2"

\* The arguments the dashboard may be started with: none, or a file name or
\* path, among them the absolute path of each file, as the menu hands it over.
GuiArguments(fileSystem) ==
  {<<>>} \cup {<<name>> : name \in {FileA, <<"c">>} \cup DOMAIN fileSystem}

\* The files the dashboard is run among: "a" and "b" side by side in the
\* current directory, both readable.
GuiFileSystems ==
  {TwoFiles(t, current_path, TRUE, u) : t \in FrontEndTexts, u \in SecondTexts}

InitGui ==
  \E fileSystem \in GuiFileSystems :
    \E arguments \in GuiArguments(fileSystem) :
      /\ files = fileSystem
      /\ courseDirectory = NoCourses
      /\ sortedCourseIds = <<>>
      /\ lastLoadResult = NewLoadResult
      /\ lastCall = NoCall
      /\ before = NewCatalog
      /\ token = <<>>
      /\ verdict = "none"
      /\ previous = NoPrevious
      /\ returned = <<>>
      /\ frame = IdleFrame
      /\ process = "start"
      /\ argv = arguments
      /\ loadedData = FALSE
      /\ currentCatalogPath = <<>>
      /\ courseIds = <<>>
      /\ screen = NoScreen
      /\ loadedFrom = <<>>

\* main of the dashboard: the optional preload, whose result is dropped, and
\* the constructor of the window, which fills the list from catalog.ids().
MainGui ==
  /\ process = "start"
  /\ IF argv # <<>>
     THEN LET out == load(files, catalog, argv[1])
          IN /\ courseDirectory' = out.courseDirectory
             /\ sortedCourseIds' = out.sortedCourseIds
             /\ courseIds' = out.sortedCourseIds
             /\ loadedFrom' = IF out.result.ok THEN out.result.path ELSE loadedFrom
             /\ lastCall' = [op |-> "load", fileName |-> argv[1]]
             /\ before' = catalog
     ELSE /\ courseIds' = ids
          /\ UNCHANGED <<courseDirectory, sortedCourseIds, loadedFrom, lastCall, before>>
  /\ screen' = [choice |-> "none", op |-> "MainWindow", message |-> "Ready"]
  /\ process' = "window"
  /\ UNCHANGED <<files, lastLoadResult, token, verdict, previous, returned, frame,
                 argv, loadedData, currentCatalogPath>>

\* A loadCatalogFromPath that leaves the list model as it is.
loadCatalogFromPathKeepingRows(choice, path) ==
  LET out == load(files, catalog, toStdString(path))
  IN /\ LoadCall(toStdString(path))
     /\ currentCatalogPath' =
          IF out.result.ok THEN fromStdString(out.result.path) ELSE currentCatalogPath
     /\ courseIds' = courseIds
     /\ loadedFrom' = IF out.result.ok THEN out.result.path ELSE loadedFrom
     /\ screen' = [choice |-> choice, op |-> "loadCatalogFromPath",
                   message |-> IF out.result.ok THEN MsgLoadedCourses
                               ELSE MsgUnableToLoadCatalog,
                   path |-> IF out.result.ok THEN fromStdString(out.result.path) ELSE path,
                   warnings |-> [i \in 1..Len(out.result.warnings) |->
                                   fromStdString(out.result.warnings[i])]]

\* loadCatalogFromPath: the load, the result kept, and after a success the
\* path stored and the list refreshed from catalog.ids().
loadCatalogFromPath(choice, path) ==
  LET out == load(files, catalog, toStdString(path))
  IN /\ LoadCall(toStdString(path))
     /\ currentCatalogPath' =
          IF out.result.ok THEN fromStdString(out.result.path) ELSE currentCatalogPath
     /\ courseIds' = IF out.result.ok THEN out.sortedCourseIds ELSE courseIds
     /\ loadedFrom' = IF out.result.ok THEN out.result.path ELSE loadedFrom
     /\ screen' = [choice |-> choice, op |-> "loadCatalogFromPath",
                   message |-> IF out.result.ok THEN MsgLoadedCourses
                               ELSE MsgUnableToLoadCatalog,
                   path |-> IF out.result.ok THEN fromStdString(out.result.path) ELSE path,
                   warnings |-> [i \in 1..Len(out.result.warnings) |->
                                   fromStdString(out.result.warnings[i])]]

\* File > Open CSV: the dialog returns the path of an existing file, or an
\* empty string when it is cancelled.
openCatalog(filePath) ==
  /\ process = "window"
  /\ IF isEmpty(filePath)
     THEN /\ screen' = [choice |-> "Open", op |-> "none"]
          /\ UNCHANGED <<courseDirectory, sortedCourseIds, lastLoadResult, lastCall,
                         before, currentCatalogPath, courseIds, loadedFrom>>
     ELSE loadCatalogFromPath("Open", filePath)
  /\ UNCHANGED <<files, token, verdict, previous, returned, frame,
                 process, argv, loadedData>>

\* File > Reload.
reloadCatalog ==
  /\ process = "window"
  /\ IF isEmpty(currentCatalogPath)
     THEN /\ screen' = [choice |-> "Reload", op |-> "none",
                        message |-> MsgLoadACatalogFirst]
          /\ UNCHANGED <<courseDirectory, sortedCourseIds, lastLoadResult, lastCall,
                         before, currentCatalogPath, courseIds, loadedFrom>>
     ELSE loadCatalogFromPath("Reload", currentCatalogPath)
  /\ UNCHANGED <<files, token, verdict, previous, returned, frame,
                 process, argv, loadedData>>

\* View > Show Missing Prereqs.
showMissingPrerequisites ==
  /\ process = "window"
  /\ screen' =
       IF lastLoadResult.missingPrerequisites = <<>>
       THEN [choice |-> "Show Missing Prereqs", op |-> "showMissingPrerequisites",
             message |-> MsgAllPrerequisitesFound, lines |-> <<>>]
       ELSE [choice |-> "Show Missing Prereqs", op |-> "showMissingPrerequisites",
             message |-> MsgFollowingMissing,
             lines |-> [i \in 1..Len(lastLoadResult.missingPrerequisites) |->
                          fromStdString(lastLoadResult.missingPrerequisites[i])]]
  /\ UNCHANGED <<files, courseDirectory, sortedCourseIds, lastLoadResult, lastCall,
                 before, token, verdict, previous, returned, frame,
                 process, argv, loadedData, currentCatalogPath, courseIds, loadedFrom>>

\* CourseListModel::courseIdForRow, rows counted from 1.
courseIdForRow(row) ==
  IF row < 1 \/ row > Len(courseIds) THEN <<>> ELSE fromStdString(courseIds[row])

\* The texts the search field may hold when the search runs, typed or put
\* there by the activation of a prerequisite.
SearchTexts ==
  {fromStdString(t) : t \in {<<" ", "a", "1", " ">>, <<"b", "2">>, <<"C", "3">>, <<" ">>}}

\* The row performSearch selects: the first row of catalog.ids() that
\* compares equal to the text, 0 when there is none.
RowToSelect(text) ==
  LET rows == {row \in 1..Len(ids) : SameIgnoringCase(fromStdString(ids[row]), text)}
  IN IF rows = {} THEN 0 ELSE CHOOSE row \in rows : \A other \in rows : row <= other

\* performSearch on the text of the search field.
performSearch(text) ==
  /\ process = "window"
  /\ LET upper == QStringToUpper(trimmed(text))
     IN IF isEmpty(upper)
        THEN /\ screen' = [choice |-> "search", op |-> "none"]
             /\ UNCHANGED <<lastCall, before>>
        ELSE /\ screen' =
                  IF get(toStdString(upper)) = {}
                  THEN [choice |-> "search", op |-> "performSearch", found |-> FALSE,
                        id |-> upper, row |-> 0, selected |-> <<>>]
                  ELSE [choice |-> "search", op |-> "performSearch", found |-> TRUE,
                        id |-> upper, row |-> RowToSelect(upper),
                        selected |-> courseIdForRow(RowToSelect(upper))]
             /\ lastCall' = [op |-> "get", id |-> toStdString(upper),
                             found |-> get(toStdString(upper))]
             /\ before' = catalog
  /\ UNCHANGED <<files, courseDirectory, sortedCourseIds, lastLoadResult,
                 token, verdict, previous, returned, frame,
                 process, argv, loadedData, currentCatalogPath, courseIds, loadedFrom>>

\* A click on a row of the list.
handleCourseSelection(row) ==
  /\ process = "window"
  /\ LET courseId == courseIdForRow(row)
     IN IF isEmpty(courseId)
        THEN /\ screen' = [choice |-> "click", op |-> "none"]
             /\ UNCHANGED <<lastCall, before>>
        ELSE /\ screen' = [choice |-> "click", op |-> "handleCourseSelection",
                           id |-> courseId, course |-> get(toStdString(courseId))]
             /\ lastCall' = [op |-> "get", id |-> toStdString(courseId),
                             found |-> get(toStdString(courseId))]
             /\ before' = catalog
  /\ UNCHANGED <<files, courseDirectory, sortedCourseIds, lastLoadResult,
                 token, verdict, previous, returned, frame,
                 process, argv, loadedData, currentCatalogPath, courseIds, loadedFrom>>

\* File > Exit.
CloseWindow ==
  /\ process = "window"
  /\ process' = "exited"
  /\ UNCHANGED <<files, courseDirectory, sortedCourseIds, lastLoadResult, lastCall,
                 before, token, verdict, previous, returned, frame,
                 argv, loadedData, currentCatalogPath, courseIds, screen, loadedFrom>>

NextGui ==
  \/ MainGui
  \/ \E filePath \in {<<>>} \cup {fromStdString(p) : p \in DOMAIN files} :
       openCatalog(filePath)
  \/ reloadCatalog
  \/ showMissingPrerequisites
  \/ \E text \in SearchTexts : performSearch(text)
  \/ \E row \in 1..Len(courseIds) : handleCourseSelection(row)
  \/ CloseWindow

SpecGui == InitGui /\ [][NextGui]_vars

\* ------------------------------------------------------------------ claims

\* The latest call was a load that got as far as reading the file.
ParsedLoad ==
  /\ lastCall.op = "load"
  /\ lastLoadResult.path \in DOMAIN files
  /\ files[lastLoadResult.path].openable

\* The lines of the file the latest load read.
LoadedLines == getline(files[lastLoadResult.path].text, "\n")

\* The columns of a line of text.
ColumnsOf(rawLine) == SplitColumns(trim(rawLine))

IsBlank(rawLine) == trim(rawLine) = <<>>

\* A line yields a record: two fields or more and a valid identifier.
IsValidLine(rawLine) ==
  /\ ~IsBlank(rawLine)
  /\ Len(ColumnsOf(rawLine)) >= 2
  /\ isCourseIdValid(toUpper(ColumnsOf(rawLine)[1]))

LineId(rawLine) == toUpper(ColumnsOf(rawLine)[1])

\* The lines of a sequence of lines that yield a record.
ValidIndexes(lines) == {i \in 1..Len(lines) : IsValidLine(lines[i])}

StartsWith(s, prefix) ==
  Len(s) >= Len(prefix) /\ SubSeq(s, 1, Len(prefix)) = prefix

\* Strings get and ids are probed with, besides those stored.
ProbeIds ==
  {<<>>, <<"A","1">>, <<"a","1">>, <<"B","2">>, <<"C","3">>, <<"D","4">>, <<"1","A">>}

StrictlyIncreasing(seq) ==
  \A i \in 1..Len(seq) - 1 : StrLess(seq[i], seq[i + 1])

\* C1: a load that returns ok=false leaves the directory unchanged: get
\* answers every string as before the call and ids returns the same sequence.
C1_FailedLoadKeepsDirectory ==
  (lastCall.op = "load" /\ ~lastLoadResult.ok) =>
     /\ \A x \in ProbeIds \cup DOMAIN courseDirectory \cup DOMAIN before.courseDirectory :
           get(x) = getIn(before, x)
     /\ ids = idsIn(before)

\* A file without a valid record was read while a directory was committed.
C1_Witness ==
  /\ ParsedLoad
  /\ ~lastLoadResult.ok
  /\ lastLoadResult.warnings # <<>>
  /\ Len(idsIn(before)) >= 2

\* C2: ids is strictly increasing and holds exactly the keys of the committed
\* mapping: get(s) finds a course if and only if s occurs in ids.
C2_IdsAreSortedKeys ==
  /\ StrictlyIncreasing(ids)
  /\ \A s \in ProbeIds \cup DOMAIN courseDirectory \cup Range(ids) :
        (get(s) # {}) <=> (s \in Range(ids))

\* Two courses given in decreasing order are committed, and a failed load followed.
C2_Witness ==
  /\ lastCall.op = "load"
  /\ ~lastLoadResult.ok
  /\ Len(ids) >= 2
  /\ \E i \in ValidIndexes(getline(files[PathJoin(current_path, FileA)].text, "\n")) :
       \E j \in ValidIndexes(getline(files[PathJoin(current_path, FileA)].text, "\n")) :
          /\ i < j
          /\ StrLess(LineId(getline(files[PathJoin(current_path, FileA)].text, "\n")[j]),
                     LineId(getline(files[PathJoin(current_path, FileA)].text, "\n")[i]))

\* C3: after a load that returns ok=true the directory holds exactly the
\* courses the file defines, each with the content of a line of that file;
\* nothing of an earlier load remains unless the file defines it.
C3_SuccessfulLoadReplaces ==
  (lastCall.op = "load" /\ lastLoadResult.ok) =>
     /\ ParsedLoad
     /\ DOMAIN courseDirectory = {LineId(LoadedLines[i]) : i \in ValidIndexes(LoadedLines)}
     /\ Range(ids) = {LineId(LoadedLines[i]) : i \in ValidIndexes(LoadedLines)}
     /\ \A id \in DOMAIN courseDirectory :
          \E i \in ValidIndexes(LoadedLines) :
             /\ LineId(LoadedLines[i]) = id
             /\ courseDirectory[id].courseName = ColumnsOf(LoadedLines[i])[2]
             /\ Range(courseDirectory[id].prerequisites) \subseteq
                  {toUpper(ColumnsOf(LoadedLines[i])[k]) :
                     k \in 3..Len(ColumnsOf(LoadedLines[i]))}

\* A second file was loaded over a committed directory: one course of the
\* earlier load is gone and another has the new file's title.
C3_Witness ==
  /\ lastCall.op = "load"
  /\ lastLoadResult.ok
  /\ \E id \in DOMAIN before.courseDirectory : id \notin DOMAIN courseDirectory
  /\ \E id \in DOMAIN before.courseDirectory \cap DOMAIN courseDirectory :
        before.courseDirectory[id].courseName # courseDirectory[id].courseName

\* The lines of a sequence of lines that are not blank.
NonBlankIndexes(lines) == {i \in 1..Len(lines) : ~IsBlank(lines[i])}

\* C4: for a file that was read, load returns ok=true if and only if some
\* line yields a valid record; when none does it returns ok=false, courses=0,
\* no missing prerequisites, and the skip warning of every non-blank line.
C4_OkIffSomeValidLine ==
  ParsedLoad =>
     /\ lastLoadResult.ok <=> (ValidIndexes(LoadedLines) # {})
     /\ (ValidIndexes(LoadedLines) = {}) =>
          /\ ~lastLoadResult.ok
          /\ lastLoadResult.courses = 0
          /\ lastLoadResult.missingPrerequisites = <<>>
          /\ Len(lastLoadResult.warnings) = Cardinality(NonBlankIndexes(LoadedLines))
          /\ \A i \in NonBlankIndexes(LoadedLines) :
               StartsWith(
                 lastLoadResult.warnings[
                   Cardinality({k \in NonBlankIndexes(LoadedLines) : k <= i})],
                 MsgSkippingLine \o to_string(i) \o <<":">>)

\* A file of two malformed lines and no valid one was read.
C4_Witness ==
  /\ ParsedLoad
  /\ ~lastLoadResult.ok
  /\ Len(lastLoadResult.warnings) >= 2

\* One or more letters followed by one or more digits and nothing else.
LettersThenDigits(t) ==
  \E k \in 1..Len(t) - 1 :
     /\ \A i \in 1..k : isalpha(t[i])
     /\ \A i \in (k + 1)..Len(t) : isdigit(t[i])

\* C5: isCourseIdValid answers every token, and answers true exactly for one
\* or more letters followed by one or more digits.
C5_ValidatorAcceptsLettersThenDigits ==
  (verdict # "none") =>
     /\ verdict \in {"valid", "invalid"}
     /\ (verdict = "valid") <=> LettersThenDigits(token)

\* A token of two letters and two digits was accepted.
C5_Witness ==
  /\ verdict = "valid"
  /\ Len(token) = 4
  /\ isalpha(token[2])
  /\ isdigit(token[3])

\* The description of prerequisite p of course c.
Describe(p, c) == p \o MsgReferencedBy \o c \o <<")">>

\* C6: on a successful load missingPrerequisites is the sorted, duplicate-free
\* list of "<p> (referenced by <c>)" over the committed courses c and their
\* prerequisites p that are no key of the mapping; a prerequisite that is a
\* key is not listed, and a file with a valid line loads whatever it refers to.
C6_MissingPrerequisitesExact ==
  /\ (lastCall.op = "load" /\ lastLoadResult.ok) =>
        /\ StrictlyIncreasing(lastLoadResult.missingPrerequisites)
        /\ Range(lastLoadResult.missingPrerequisites) =
             UNION {{Describe(p, c) :
                       p \in {q \in Range(courseDirectory[c].prerequisites) :
                                q \notin DOMAIN courseDirectory}} :
                    c \in DOMAIN courseDirectory}
        /\ \A c \in DOMAIN courseDirectory :
             \A p \in Range(courseDirectory[c].prerequisites) :
                p \in DOMAIN courseDirectory =>
                   Describe(p, c) \notin Range(lastLoadResult.missingPrerequisites)
  /\ (ParsedLoad /\ ValidIndexes(LoadedLines) # {}) => lastLoadResult.ok

\* A load succeeded with two dangling references and one resolved prerequisite.
C6_Witness ==
  /\ lastCall.op = "load"
  /\ lastLoadResult.ok
  /\ Len(lastLoadResult.missingPrerequisites) >= 2
  /\ \E c \in DOMAIN courseDirectory :
       \E p \in Range(courseDirectory[c].prerequisites) : p \in DOMAIN courseDirectory

\* The file system with the text of the file last read replaced.
WithText(text) == [files EXCEPT ![lastLoadResult.path].text = text]

\* What the latest load would have done had the file held the given lines.
LoadOfLines(lines) == load(WithText(JoinLines(lines)), before, lastCall.fileName)

Rearrangements(n) == {f \in [1..n -> 1..n] : \A i, j \in 1..n : f[i] = f[j] => i = j}

\* The valid lines define pairwise distinct identifiers.
DistinctIds(lines) ==
  \A i, j \in ValidIndexes(lines) : LineId(lines[i]) = LineId(lines[j]) => i = j

\* C7: for a file whose valid lines define pairwise distinct identifiers,
\* every permutation of its lines commits the same directory and returns the
\* same missingPrerequisites; a prerequisite defined on a later line, or the
\* course itself, is not reported missing.
C7_LineOrderIrrelevant ==
  (ParsedLoad /\ DistinctIds(LoadedLines)) =>
     /\ \A f \in Rearrangements(Len(LoadedLines)) :
          LET out == LoadOfLines([i \in 1..Len(LoadedLines) |-> LoadedLines[f[i]]])
          IN /\ out.courseDirectory = courseDirectory
             /\ out.sortedCourseIds = sortedCourseIds
             /\ out.result.ok = lastLoadResult.ok
             /\ out.result.missingPrerequisites = lastLoadResult.missingPrerequisites
     /\ \A i \in ValidIndexes(LoadedLines) :
          \A j \in {k \in ValidIndexes(LoadedLines) : k >= i} :
             \A c \in 3..Len(ColumnsOf(LoadedLines[i])) :
                toUpper(ColumnsOf(LoadedLines[i])[c]) = LineId(LoadedLines[j]) =>
                   Describe(LineId(LoadedLines[j]), LineId(LoadedLines[i]))
                     \notin Range(lastLoadResult.missingPrerequisites)

\* A file was loaded whose first course names as prerequisite a course that a
\* later line defines.
C7_Witness ==
  /\ ParsedLoad
  /\ lastLoadResult.ok
  /\ DistinctIds(LoadedLines)
  /\ \E i \in ValidIndexes(LoadedLines) :
       \E j \in {k \in ValidIndexes(LoadedLines) : k > i} :
          LineId(LoadedLines[j]) \in
            Range(courseDirectory[LineId(LoadedLines[i])].prerequisites)

\* The valid lines of the file last read that define the identifier id.
LinesDefining(id) == {i \in ValidIndexes(LoadedLines) : LineId(LoadedLines[i]) = id}

LastDefining(id) == CHOOSE i \in LinesDefining(id) : \A j \in LinesDefining(id) : j <= i

CountOf(seq, x) == Cardinality({i \in 1..Len(seq) : seq[i] = x})

\* C8: when two or more valid lines of a file define one identifier, the
\* committed course is the one the last of them yields on its own, title and
\* prerequisites, and one warning "Replacing existing course entry for <ID>."
\* fewer than there are such lines is returned.
C8_LastDefinitionWins ==
  (ParsedLoad /\ lastLoadResult.ok) =>
     \A id \in DOMAIN courseDirectory :
        Cardinality(LinesDefining(id)) >= 2 =>
           /\ courseDirectory[id] =
                ParseText(JoinLines(<<LoadedLines[LastDefining(id)]>>)).loadedCourseDirectory[id]
           /\ courseDirectory[id].courseName = ColumnsOf(LoadedLines[LastDefining(id)])[2]
           /\ CountOf(lastLoadResult.warnings, MsgReplacing \o id \o <<".">>)
                = Cardinality(LinesDefining(id)) - 1

\* Three lines defined one identifier, the first with another title than the last.
C8_Witness ==
  /\ ParsedLoad
  /\ lastLoadResult.ok
  /\ \E id \in DOMAIN courseDirectory :
       /\ Cardinality(LinesDefining(id)) = 3
       /\ \E i \in LinesDefining(id) :
            ColumnsOf(LoadedLines[i])[2] # ColumnsOf(LoadedLines[LastDefining(id)])[2]

NoLowerCase(s) == \A i \in 1..Len(s) : s[i] \notin Range(LowerLetters)

NoRepeats(seq) == \A i, j \in 1..Len(seq) : seq[i] = seq[j] => i = j

\* C9: every course stored under a key carries that key as its courseNumber;
\* the key is non-empty, upper-case and a valid identifier; its prerequisites
\* are valid upper-case identifiers, none occurring twice.
C9_StoredCoursesWellFormed ==
  \A id \in DOMAIN courseDirectory :
     /\ courseDirectory[id].courseNumber = id
     /\ id # <<>>
     /\ toUpper(id) = id
     /\ NoLowerCase(id)
     /\ isCourseIdValid(id)
     /\ \A p \in Range(courseDirectory[id].prerequisites) :
          isCourseIdValid(p) /\ toUpper(p) = p /\ NoLowerCase(p)
     /\ NoRepeats(courseDirectory[id].prerequisites)

\* A course given in lower case with a repeated lower-case prerequisite is stored.
C9_Witness ==
  /\ ParsedLoad
  /\ lastLoadResult.ok
  /\ \E i \in ValidIndexes(LoadedLines) :
       /\ ~NoLowerCase(ColumnsOf(LoadedLines[i])[1])
       /\ LastDefining(LineId(LoadedLines[i])) = i
       /\ \E c, d \in 3..Len(ColumnsOf(LoadedLines[i])) :
            /\ c # d
            /\ toUpper(ColumnsOf(LoadedLines[i])[c]) = toUpper(ColumnsOf(LoadedLines[i])[d])
            /\ ~NoLowerCase(ColumnsOf(LoadedLines[i])[d])
            /\ toUpper(ColumnsOf(LoadedLines[i])[c]) \in
                 Range(courseDirectory[LineId(LoadedLines[i])].prerequisites)

\* The non-blank lines that yield no record.
MalformedIndexes(lines) == {i \in NonBlankIndexes(lines) : ~IsValidLine(lines[i])}

RemoveAt(seq, j) == SubSeq(seq, 1, j - 1) \o SubSeq(seq, j + 1, Len(seq))

\* C10: a non-blank line with fewer than two fields or an invalid identifier
\* adds one warning and no course: but for that warning the load does what it
\* does with the line blank, and the valid lines after it are stored.
C10_MalformedLineOnlyWarns ==
  ParsedLoad =>
     \A i \in MalformedIndexes(LoadedLines) :
        LET out == LoadOfLines([LoadedLines EXCEPT ![i] = <<>>])
        IN /\ out.courseDirectory = courseDirectory
           /\ out.sortedCourseIds = sortedCourseIds
           /\ out.result.ok = lastLoadResult.ok
           /\ out.result.courses = lastLoadResult.courses
           /\ out.result.missingPrerequisites = lastLoadResult.missingPrerequisites
           /\ \E j \in 1..Len(lastLoadResult.warnings) :
                /\ StartsWith(lastLoadResult.warnings[j],
                              MsgSkippingLine \o to_string(i) \o <<":">>)
                /\ RemoveAt(lastLoadResult.warnings, j) = out.result.warnings
           /\ \A k \in {v \in ValidIndexes(LoadedLines) : v > i} :
                LineId(LoadedLines[k]) \in DOMAIN courseDirectory

\* A line with one field and a line with an invalid identifier came before a
\* valid line, which was stored.
C10_Witness ==
  /\ ParsedLoad
  /\ lastLoadResult.ok
  /\ \E i, j \in MalformedIndexes(LoadedLines) :
       /\ Len(ColumnsOf(LoadedLines[i])) < 2
       /\ Len(ColumnsOf(LoadedLines[j])) >= 2
       /\ \E k \in ValidIndexes(LoadedLines) : k > i /\ k > j

\* The columns of every line of a sequence of lines.
ColumnsTable(lines) == [i \in 1..Len(lines) |-> ColumnsOf(lines[i])]

\* The lines that yield a record, told by their columns.
ValidRows(table) ==
  {i \in DOMAIN table : Len(table[i]) >= 2 /\ isCourseIdValid(toUpper(table[i][1]))}

\* The fields of a line's columns from the third onward that are not empty.
PrereqFields(columns) == {k \in 3..Len(columns) : columns[k] # <<>>}

\* Those that are no valid identifier once uppercased.
InvalidFields(columns) ==
  {k \in PrereqFields(columns) : ~isCourseIdValid(toUpper(columns[k]))}

ValidFields(columns) == PrereqFields(columns) \ InvalidFields(columns)

\* The valid fields that repeat, uppercased, an earlier valid field of the line.
RepeatFields(columns) ==
  LET valid == ValidFields(columns)
  IN {k \in valid : \E j \in valid : j < k /\ toUpper(columns[j]) = toUpper(columns[k])}

\* The uppercased fields with the given indexes, from index k on, in field order.
RECURSIVE FieldsInOrder(_, _, _)
FieldsInOrder(columns, indexes, k) ==
  IF k > Len(columns) THEN <<>>
  ELSE IF k \in indexes
       THEN <<toUpper(columns[k])>> \o FieldsInOrder(columns, indexes, k + 1)
       ELSE FieldsInOrder(columns, indexes, k + 1)

SkippingPrereqText(columns, k) ==
  MsgSkippingPrereq \o columns[k] \o MsgForCourse \o toUpper(columns[1]) \o <<".">>

DuplicatePrereqText(columns, k) ==
  MsgDuplicatePrereq \o toUpper(columns[k]) \o MsgIgnoredForCourse
    \o toUpper(columns[1]) \o <<".">>

CountStartingWith(seq, prefix) ==
  Cardinality({j \in 1..Len(seq) : StartsWith(seq[j], prefix)})

\* Every text of the table occurs in seq as often as it occurs in the table.
OccursAsOftenAs(seq, texts) ==
  \A p \in DOMAIN texts :
     CountOf(seq, texts[p]) = Cardinality({q \in DOMAIN texts : texts[q] = texts[p]})

\* C11: the prerequisites stored for a course are the first occurrences, in
\* field order, of the uppercased non-empty valid fields from the third on of
\* its last defining line; the result holds one "Skipping invalid prerequisite"
\* warning per non-empty invalid field and one "Duplicate prerequisite" warning
\* per repeat, none for an empty field; and every valid line's course is stored.
C11_PrerequisitesFirstOccurrences ==
  ParsedLoad =>
     LET table == ColumnsTable(LoadedLines)
         valid == ValidRows(table)
         invalidFields == UNION {{<<i, k>> : k \in InvalidFields(table[i])} : i \in valid}
         repeatFields == UNION {{<<i, k>> : k \in RepeatFields(table[i])} : i \in valid}
         skippingTexts == [p \in invalidFields |-> SkippingPrereqText(table[p[1]], p[2])]
         duplicateTexts == [p \in repeatFields |-> DuplicatePrereqText(table[p[1]], p[2])]
     IN /\ \A i \in valid : toUpper(table[i][1]) \in DOMAIN courseDirectory
        /\ \A i \in valid :
             (\A j \in valid : toUpper(table[j][1]) = toUpper(table[i][1]) => j <= i) =>
                courseDirectory[toUpper(table[i][1])].prerequisites =
                  FieldsInOrder(table[i], ValidFields(table[i]) \ RepeatFields(table[i]), 3)
        /\ CountStartingWith(lastLoadResult.warnings, MsgSkippingPrereq)
             = Cardinality(invalidFields)
        /\ CountStartingWith(lastLoadResult.warnings, MsgDuplicatePrereq)
             = Cardinality(repeatFields)
        /\ OccursAsOftenAs(lastLoadResult.warnings, skippingTexts)
        /\ OccursAsOftenAs(lastLoadResult.warnings, duplicateTexts)

\* A stored course's line had an empty field, an invalid field and a repeat
\* among its prerequisite fields, and a valid field after them.
C11_Witness ==
  /\ ParsedLoad
  /\ lastLoadResult.ok
  /\ \E i \in ValidIndexes(LoadedLines) :
       /\ LastDefining(LineId(LoadedLines[i])) = i
       /\ \E k \in 3..Len(ColumnsOf(LoadedLines[i])) : ColumnsOf(LoadedLines[i])[k] = <<>>
       /\ InvalidFields(ColumnsOf(LoadedLines[i])) # {}
       /\ \E r \in RepeatFields(ColumnsOf(LoadedLines[i])) :
            \E v \in ValidFields(ColumnsOf(LoadedLines[i]))
                       \ RepeatFields(ColumnsOf(LoadedLines[i])) : v > r
       /\ Len(courseDirectory[LineId(LoadedLines[i])].prerequisites) = 2

\* The directory k levels above dir; the root is its own parent.
RECURSIVE NthParent(_, _)
NthParent(dir, k) == IF k = 0 THEN dir ELSE NthParent(parent_path(dir), k - 1)

\* How many levels above the current directory the searched directories
\* holding a file of the given relative name lie.
Holders(fileName) ==
  {k \in 0..(kMaxParentSearchDepth - 1) :
     PathJoin(NthParent(current_path, k), fileName) \in DOMAIN files}

Nearest(fileName) == CHOOSE k \in Holders(fileName) : \A j \in Holders(fileName) : k <= j

\* The latest load read, or failed to open, the file at path p.
TookFileAt(p) ==
  /\ lastLoadResult.path = p
  /\ ~files[p].openable =>
        ~lastLoadResult.ok /\ lastLoadResult.warnings = <<MsgUnableToOpen \o p>>
  /\ files[p].openable =>
        /\ lastLoadResult.ok <=> (ValidIndexes(getline(files[p].text, "\n")) # {})
        /\ lastLoadResult.ok =>
             DOMAIN courseDirectory =
               {LineId(getline(files[p].text, "\n")[i]) :
                  i \in ValidIndexes(getline(files[p].text, "\n"))}

\* The latest load found no file and read none.
LocatedNothing ==
  /\ ~lastLoadResult.ok
  /\ lastLoadResult.warnings = <<MsgUnableToLocate \o lastCall.fileName>>
  /\ lastLoadResult.path = lastCall.fileName
  /\ catalog = before

\* C12 as stated: load reads the file at exactly the path it is given; when no
\* file exists at that path (absolute, or relative to the current directory)
\* it returns ok=false with one warning, and never reads a file of that
\* relative name lying in a parent directory.
C12_ReadsExactlyGivenPath ==
  (lastCall.op = "load" /\ lastCall.fileName # <<>>) =>
     IF absolute(lastCall.fileName) \in DOMAIN files
     THEN TookFileAt(absolute(lastCall.fileName))
     ELSE /\ ~lastLoadResult.ok
          /\ Len(lastLoadResult.warnings) = 1
          /\ lastLoadResult.path \notin DOMAIN files

\* C12 amended: load reads the file at the path it is given when a file exists
\* there; for a relative name that names no file in the current directory it
\* reads the file of that relative name in the nearest of the
\* kMaxParentSearchDepth - 1 directories above the current one that holds it;
\* it returns ok=false with the one warning "Unable to locate file: <name>"
\* exactly when the name is absolute and no file exists there, or is relative
\* and none of the searched directories holds it.
C12_ReadsNearestSearchedPath ==
  (lastCall.op = "load" /\ lastCall.fileName # <<>>) =>
     IF is_absolute(lastCall.fileName)
     THEN IF lastCall.fileName \in DOMAIN files
          THEN TookFileAt(lastCall.fileName)
          ELSE LocatedNothing
     ELSE IF Holders(lastCall.fileName) = {}
          THEN LocatedNothing
          ELSE TookFileAt(PathJoin(NthParent(current_path, Nearest(lastCall.fileName)),
                                   lastCall.fileName))

\* A relative name that names no file in the current directory was loaded
\* from the nearer of two directories above it that hold a file of that name.
C12_Witness ==
  /\ lastCall.op = "load"
  /\ lastCall.fileName = FileB
  /\ lastLoadResult.ok
  /\ absolute(FileB) \notin DOMAIN files
  /\ lastLoadResult.path = PathJoin(parent_path(current_path), FileB)
  /\ PathJoin(parent_path(parent_path(current_path)), FileB) \in DOMAIN files

\* C13: a non-blank line is skipped with the warning "expected course ID and
\* name" exactly when its trimmed text contains no comma; a valid identifier
\* followed by a comma and an empty title is not skipped for too few fields.
C13_SkippedIffNoComma ==
  ParsedLoad =>
     \A i \in NonBlankIndexes(LoadedLines) :
        (MsgSkippingLine \o to_string(i) \o MsgExpectedIdAndName
           \in Range(lastLoadResult.warnings))
        <=> ("," \notin Range(trim(LoadedLines[i])))

\* The path of the file a load of the given name takes, if it finds one.
IsLocated(fileName) ==
  IF is_absolute(fileName) THEN fileName \in DOMAIN files ELSE Holders(fileName) # {}

LocatedPath(fileName) ==
  IF is_absolute(fileName) THEN fileName
  ELSE PathJoin(NthParent(current_path, Nearest(fileName)), fileName)

\* The one warning of a load that opens no file, if the latest load was one.
FailureWarning ==
  IF lastCall.fileName = <<>> THEN {MsgFileNameEmpty}
  ELSE IF ~IsLocated(lastCall.fileName) THEN {MsgUnableToLocate \o lastCall.fileName}
  ELSE IF ~files[LocatedPath(lastCall.fileName)].openable
       THEN {MsgUnableToOpen \o LocatedPath(lastCall.fileName)}
  ELSE {}

\* C14: when the file name is empty, no file is located, or the file cannot be
\* opened, load returns ok=false, courses=0, no missing prerequisites and
\* exactly one warning, which describes the failure; nothing is parsed: the
\* records the file may hold leave no trace in the result or the directory.
C14_FailureBeforeParsing ==
  (lastCall.op = "load" /\ FailureWarning # {}) =>
     /\ ~lastLoadResult.ok
     /\ lastLoadResult.courses = 0
     /\ lastLoadResult.missingPrerequisites = <<>>
     /\ Len(lastLoadResult.warnings) = 1
     /\ lastLoadResult.warnings[1] \in FailureWarning
     /\ catalog = before

\* A file holding valid records could not be opened, after a load had succeeded.
C14_Witness ==
  /\ lastCall.op = "load"
  /\ lastCall.fileName # <<>>
  /\ IsLocated(lastCall.fileName)
  /\ ~files[LocatedPath(lastCall.fileName)].openable
  /\ ValidIndexes(getline(files[LocatedPath(lastCall.fileName)].text, "\n")) # {}
  /\ DOMAIN courseDirectory # {}
  /\ Len(lastLoadResult.warnings) = 1

\* Two names that make load take one and the same file.
SameFile(f, g) ==
  /\ f # <<>> /\ g # <<>>
  /\ IsLocated(f) /\ IsLocated(g)
  /\ LocatedPath(f) = LocatedPath(g)

\* C15: when two loads in succession take the same file, the directory after
\* the second is the directory after the first (get answers every string
\* alike, ids is the same sequence) and the two results agree in ok, courses,
\* warnings and missingPrerequisites.
C15_ReloadIsIdempotent ==
  (/\ lastCall.op = "load"
   /\ previous.call.op = "load"
   /\ SameFile(previous.call.fileName, lastCall.fileName)) =>
     /\ \A x \in ProbeIds \cup DOMAIN courseDirectory \cup DOMAIN before.courseDirectory :
          get(x) = getIn(before, x)
     /\ ids = idsIn(before)
     /\ lastLoadResult.ok = previous.result.ok
     /\ lastLoadResult.courses = previous.result.courses
     /\ lastLoadResult.warnings = previous.result.warnings
     /\ lastLoadResult.missingPrerequisites = previous.result.missingPrerequisites

\* A file was loaded by its relative name and again by its absolute path, with
\* success, a warning and a missing prerequisite both times.
C15_Witness ==
  /\ lastCall.op = "load"
  /\ previous.call.op = "load"
  /\ previous.call.fileName # lastCall.fileName
  /\ SameFile(previous.call.fileName, lastCall.fileName)
  /\ lastLoadResult.ok
  /\ lastLoadResult.warnings # <<>>
  /\ lastLoadResult.missingPrerequisites # <<>>
  /\ Len(ids) = 2

\* The warnings the prerequisite fields of a valid line's columns give rise
\* to, from field k on, in field order.
RECURSIVE PrereqWarnings(_, _, _, _)
PrereqWarnings(columns, invalid, repeats, k) ==
  IF k > Len(columns) THEN <<>>
  ELSE (IF k \in invalid THEN <<SkippingPrereqText(columns, k)>>
        ELSE IF k \in repeats THEN <<DuplicatePrereqText(columns, k)>>
        ELSE <<>>)
       \o PrereqWarnings(columns, invalid, repeats, k + 1)

\* The warnings line i gives rise to, the lines told by their columns.
LineWarnings(table, valid, i) ==
  IF table[i] = <<>> THEN <<>>
  ELSE IF Len(table[i]) < 2
  THEN <<MsgSkippingLine \o to_string(i) \o MsgExpectedIdAndName>>
  ELSE IF i \notin valid
  THEN <<MsgSkippingLine \o to_string(i) \o MsgInvalidCourseId \o table[i][1] \o MsgQuoteDot>>
  ELSE PrereqWarnings(table[i], InvalidFields(table[i]), RepeatFields(table[i]), 3)
       \o (IF \E j \in valid : j < i /\ toUpper(table[j][1]) = toUpper(table[i][1])
           THEN <<MsgReplacing \o toUpper(table[i][1]) \o <<".">>>>
           ELSE <<>>)

\* The warnings of lines i, i+1, ... one after the other.
RECURSIVE WarningsFrom(_, _, _)
WarningsFrom(table, valid, i) ==
  IF i > Len(table) THEN <<>>
  ELSE LineWarnings(table, valid, i) \o WarningsFrom(table, valid, i + 1)

\* C16: the warnings returned by a load that read a file are the warnings of
\* its lines in line order; those of one line are its prerequisite warnings in
\* field order followed by its "Replacing existing course entry" warning; none
\* is missing and none is added, whether or not the load succeeds.
C16_WarningsInGenerationOrder ==
  ParsedLoad =>
     LET table == ColumnsTable(LoadedLines)
         valid == ValidRows(table)
     IN lastLoadResult.warnings = WarningsFrom(table, valid, 1)

\* A skipped line came before a line that gave a prerequisite warning and then
\* replaced an earlier course.
C16_Witness ==
  /\ ParsedLoad
  /\ lastLoadResult.ok
  /\ Len(lastLoadResult.warnings) >= 3
  /\ \E i \in MalformedIndexes(LoadedLines) :
       \E j \in ValidIndexes(LoadedLines) :
          /\ i < j
          /\ InvalidFields(ColumnsOf(LoadedLines[j]))
               \cup RepeatFields(ColumnsOf(LoadedLines[j])) # {}
          /\ \E h \in ValidIndexes(LoadedLines) :
               h < j /\ LineId(LoadedLines[h]) = LineId(LoadedLines[j])

\* The lines of a sequence of lines that are blank.
BlankIndexes(lines) == {i \in 1..Len(lines) : IsBlank(lines[i])}

\* The warnings of a sequence that say line i was skipped.
SkipWarningsOf(seq, i) ==
  {j \in 1..Len(seq) : StartsWith(seq[j], MsgSkippingLine \o to_string(i) \o <<":">>)}

\* C17: a line that is blank once spaces, tabs, CR and LF are trimmed gives no
\* warning and no record (the load does what it does with the line empty), yet
\* it is counted: the skip warning of a later malformed line quotes that
\* line's position among all lines; a file with no line or only blank lines
\* makes load return ok=false, courses=0 and no warning.
C17_BlankLinesCountButSilent ==
  ParsedLoad =>
     /\ \A i \in BlankIndexes(LoadedLines) :
          /\ SkipWarningsOf(lastLoadResult.warnings, i) = {}
          /\ LET out == LoadOfLines([LoadedLines EXCEPT ![i] = <<>>])
             IN /\ out.result = lastLoadResult
                /\ out.courseDirectory = courseDirectory
                /\ out.sortedCourseIds = sortedCourseIds
     /\ \A j \in 1..Len(LoadedLines) :
          Cardinality(SkipWarningsOf(lastLoadResult.warnings, j))
            = IF j \in MalformedIndexes(LoadedLines) THEN 1 ELSE 0
     /\ (NonBlankIndexes(LoadedLines) = {}) =>
          /\ ~lastLoadResult.ok
          /\ lastLoadResult.courses = 0
          /\ lastLoadResult.warnings = <<>>
          /\ lastLoadResult.missingPrerequisites = <<>>

\* A line of a space and a tab came before a malformed line, whose warning
\* quotes its position counting the blank line.
C17_Witness ==
  /\ ParsedLoad
  /\ \E i \in BlankIndexes(LoadedLines) :
       /\ LoadedLines[i] # <<>>
       /\ \E j \in MalformedIndexes(LoadedLines) :
            /\ i < j
            /\ MalformedIndexes(LoadedLines) = {j}
            /\ SkipWarningsOf(lastLoadResult.warnings, j) # {}

\* C18: on a successful load result.courses is the number of distinct
\* uppercased identifiers among the valid lines of the file, not the number of
\* valid lines, and is the length of ids() right after the call.
C18_CoursesCountsDistinctIds ==
  (lastCall.op = "load" /\ lastLoadResult.ok) =>
     /\ ParsedLoad
     /\ lastLoadResult.courses =
          Cardinality({LineId(LoadedLines[i]) : i \in ValidIndexes(LoadedLines)})
     /\ lastLoadResult.courses = Len(ids)

\* Three valid lines defined two identifiers, one of them in two spellings.
C18_Witness ==
  /\ ParsedLoad
  /\ lastLoadResult.ok
  /\ Cardinality(ValidIndexes(LoadedLines)) = 3
  /\ lastLoadResult.courses = 2
  /\ \E i, j \in ValidIndexes(LoadedLines) :
       /\ ColumnsOf(LoadedLines[i])[1] # ColumnsOf(LoadedLines[j])[1]
       /\ LineId(LoadedLines[i]) = LineId(LoadedLines[j])

\* get and ids answer after the step as they did before it.
SameAnswers ==
  /\ \A x \in ProbeIds \cup GetArgs \cup DOMAIN courseDirectory \cup DOMAIN courseDirectory' :
       get(x)' = get(x)
  /\ ids' = ids

\* C19: a call of get or ids leaves the directory as it was: every get and ids
\* after it answers as before it; and the vector ids returned is the caller's
\* own: it changes only by a new call of ids or by the caller's hand, never by
\* a load, and a change the caller makes to it leaves the directory alone.
C19_ReadersLeaveDirectory ==
  [][/\ lastCall'.op \in {"get", "ids"} => SameAnswers
     /\ returned' # returned =>
          /\ SameAnswers
          /\ lastCall'.op = "ids" \/ lastCall' = lastCall]_vars

\* The caller holds the two identifiers ids returned before a later load
\* replaced the directory by one of a single course, and has since called get
\* with an identifier that is not stored.
C19_Witness ==
  /\ lastCall.op = "get"
  /\ lastCall.found = {}
  /\ Len(returned) = 2
  /\ StrictlyIncreasing(returned)
  /\ <<"Z","9">> \notin Range(returned)
  /\ Len(ids) = 1
  /\ returned # ids

\* A caller can call get or ids in this state.
Observable == ENABLED (Ids \/ \E id \in GetArgs : Get(id))

\* The mapping and the identifier sequence belong together.
MembersAgree ==
  /\ Range(sortedCourseIds) = DOMAIN courseDirectory
  /\ StrictlyIncreasing(sortedCourseIds)

\* C20: while a load is under way and has not reached its commit, the live
\* directory (mapping and identifier sequence) is what it was when the call
\* began; and in no state in which get or ids can be called does the mapping
\* of one load stand beside the identifier sequence of another: a load that
\* has returned has replaced both or neither.
C20_CommitNotObservedHalfDone ==
  /\ frame.pc \in {"resolve", "parse", "commitDirectory"} => catalog = before
  /\ Observable => MembersAgree
  /\ (frame.pc = "return" /\ ~frame.result.ok) => catalog = before
  /\ (frame.pc = "return" /\ frame.result.ok) =>
        /\ MembersAgree
        /\ DOMAIN courseDirectory =
             {LineId(getline(files[frame.result.path].text, "\n")[i]) :
                i \in ValidIndexes(getline(files[frame.result.path].text, "\n"))}

\* A load over a committed directory is between its two assignments: the
\* mapping is the new one, the identifier sequence still the old one, and
\* neither get nor ids can be called.
C20_Witness ==
  /\ frame.pc = "commitIds"
  /\ DOMAIN before.courseDirectory # {}
  /\ courseDirectory # before.courseDirectory
  /\ sortedCourseIds = before.sortedCourseIds
  /\ ~MembersAgree
  /\ ~Observable

\* ------------------------------------------------------------- the menu's flag

\* Some load of the session has succeeded.
SessionHasLoaded == loadedFrom # <<>>

\* C21: in the menu, loadedData is true exactly when some load of the session
\* has succeeded, which is exactly when the session's catalog holds a course;
\* and once a load has succeeded, options 2 and 3 are never answered with
\* "Please load courses first".
C21_LoadedDataIffSessionLoaded ==
  process = "menu" =>
    /\ loadedData <=> SessionHasLoaded
    /\ loadedData <=> DOMAIN courseDirectory # {}
    /\ (SessionHasLoaded /\ screen.choice \in {"2", "3"}) => screen.op # "none"

\* C22: printAllCourses and handleCourseLookup run only with loadedData true,
\* and loadedData true means a catalog that is not empty; before the first
\* load that succeeds, options 2 and 3 print "Please load courses first" and
\* make no call of get or ids.
C22_ListingsOnlyWhenLoaded ==
  /\ screen.op \in {"printAllCourses", "handleCourseLookup"} =>
       loadedData /\ DOMAIN courseDirectory # {}
  /\ loadedData => DOMAIN courseDirectory # {} /\ sortedCourseIds # <<>>
  /\ ~SessionHasLoaded =>
       /\ lastCall.op \in {"none", "load"}
       /\ screen.choice \in {"2", "3"} =>
            screen.op = "none" /\ screen.message = MsgPleaseLoad

\* Option 2 has printed the two lines of a catalog of two courses.
C22_Witness ==
  /\ screen.choice = "2"
  /\ screen.op = "printAllCourses"
  /\ Len(screen.lines) = 2
  /\ loadedData
  /\ lastCall.op = "ids"

\* ------------------------------------------------------- the path handed over

CleanedLine(s) ==
  LET t == toUpper(trim(s))
  IN IF t # <<>> /\ t[Len(t)] = "," THEN trim(SubSeq(t, 1, Len(t) - 1)) ELSE t

\* The lengths of the prefixes of u made of letters and then digits.
RunLengths(u) ==
  {k \in 0..Len(u) :
     \E j \in 0..k : /\ \A i \in 1..j : isalpha(u[i])
                     /\ \A i \in (j + 1)..k : isdigit(u[i])}

LongestRun(u) ==
  SubSeq(u, 1, CHOOSE k \in RunLengths(u) : \A m \in RunLengths(u) : m <= k)

\* C27: with u the typed line trimmed, upper-cased and rid of one final
\* comma, normalizeCourseIdInput returns a value exactly when the longest
\* prefix of u made of letters and then digits is a valid identifier; the
\* value is that prefix, flagged wasTrimmed exactly when it differs from u.
\* So a token the loader accepts comes back as the key the loader stores,
\* not flagged, and every identifier returned passes isCourseIdValid.
C27_NormalizedIsLongestValidPrefix ==
  screen.op = "normalizeCourseIdInput" =>
    LET u == CleanedLine(token)
        longest == LongestRun(u)
        r == screen.result
    IN /\ r.has_value <=> LettersThenDigits(longest)
       /\ r.has_value =>
            /\ r.id = longest
            /\ r.wasTrimmed <=> longest # u
            /\ isCourseIdValid(r.id)
       /\ isCourseIdValid(toUpper(trim(token))) =>
            /\ r.has_value
            /\ r.id = toUpper(trim(token))
            /\ ~r.wasTrimmed

\* A line with a final comma was cut down to a shorter identifier.
C27_Witness ==
  /\ screen.op = "normalizeCourseIdInput"
  /\ Len(token) = 4
  /\ token[4] = ","
  /\ screen.result.has_value
  /\ screen.result.wasTrimmed
  /\ screen.result.id = <<"A", "1">>

\* ------------------------------------------------------------------ the window

\* The pairs <<course, prerequisite>> of the catalog whose prerequisite is not
\* a key of the catalog.
DanglingPairs ==
  {pair \in (DOMAIN courseDirectory) \X
              (UNION {Range(courseDirectory[id].prerequisites) : id \in DOMAIN courseDirectory}) :
     /\ pair[2] \in Range(courseDirectory[pair[1]].prerequisites)
     /\ pair[2] \notin DOMAIN courseDirectory}

\* C24: in the window, "Show Missing Prereqs" says that all prerequisites
\* were found only if every prerequisite of every course of the window's
\* catalog is a key of that catalog, and otherwise lists exactly the dangling
\* references of that catalog.
C24_MissingReportIsOfCurrentCatalog ==
  screen.op = "showMissingPrerequisites" =>
    IF screen.message = MsgAllPrerequisitesFound
    THEN DanglingPairs = {}
    ELSE LET missing == SortStrings(missingSet(courseDirectory))
         IN screen.lines = [i \in 1..Len(missing) |-> fromStdString(missing[i])]

\* C25: in the window, Reload on a catalog that holds courses runs load on
\* the path of the file those courses were loaded from, a preloaded catalog
\* included; it answers "Load a catalog first." only when no load of that
\* catalog has succeeded.
C25_ReloadLoadsFileOfCatalog ==
  screen.choice = "Reload" =>
    /\ DOMAIN courseDirectory # {} =>
         /\ screen.op = "loadCatalogFromPath"
         /\ lastCall = [op |-> "load", fileName |-> loadedFrom]
    /\ screen.op = "none" => loadedFrom = <<>>

\* C26: in the window, the rows of the list model are catalog.ids(), in the
\* same order, after the constructor and after every action; every row
\* resolves through get to a course; and a search that finds a course
\* selects the row holding its identifier.
C26_RowsAreCatalogIds ==
  process = "window" =>
    /\ courseIds = ids
    /\ \A row \in 1..Len(courseIds) : get(toStdString(courseIdForRow(row))) # {}
    /\ (screen.op = "performSearch" /\ screen.found) =>
         /\ screen.row \in 1..Len(courseIds)
         /\ screen.selected = screen.id
         /\ courseIds[screen.row] = toStdString(screen.id)

\* A search has selected the second of two rows, the latest load having
\* failed after an earlier one filled the list.
C26_Witness ==
  /\ process = "window"
  /\ screen.op = "performSearch"
  /\ screen.found
  /\ screen.row = 2
  /\ Len(courseIds) = 2
  /\ ~lastLoadResult.ok
  /\ lastLoadResult.warnings # <<>>
  /\ ~isEmpty(currentCatalogPath)

====
